---- MODULE Spec2Model ----
(***************************************************************************)
(* Model of the multi-channel spectrogram pipeline of the EEG viewer:      *)
(*   parquet-parser.tsx   parseEEGParquet, getAveragePowerSpectrum,        *)
(*                        convertToSpectrogramData                         *)
(*   MultiChannelSpectrogram (the view with individual / combined mode)    *)
(*                        getColor, drawSpectrogram, drawSingleSpectrogram,*)
(*                        drawCombinedSpectrogram                          *)
(*                                                                         *)
(* Numbers.  Power values, timestamps and offsets are integers.  A parsed  *)
(* frequency is kept in hundredths (parseFloat("0.5") is 50), so that two  *)
(* different spellings of one number meet in one value.  A number that may *)
(* be NaN is a record [nan, val].  Column names are sequences of one-      *)
(* character strings, so that startsWith, substring and parseFloat are     *)
(* computed on the characters.                                             *)
(***************************************************************************)
EXTENDS Integers, Sequences, FiniteSets, TLC

VARIABLES
    table,        \* the decoded columnar table handed to parseEEGParquet
    recording,    \* the ParsedEEGData built from it
    built,        \* TRUE once parseEEGParquet has returned
    call,         \* the last call of an exported helper and its outcome
    view,         \* state and props of one MultiChannelSpectrogram
    canvas,       \* what the last drawSpectrogram left on the canvas
    page,         \* the state of the EEGPatientData page
    loaders,      \* the background spectrogram loaders that are running
    upload,       \* the Parquet upload in progress
    server,       \* the files behind /sample_data and the requests issued
    hook          \* one useEEGSpectrogramData with its requests in flight

vars == <<table, recording, built, call, view, canvas,
          page, loaders, upload, server, hook>>

\* the pipeline of one recording and its view
pipelineVars == <<table, recording, built, call, view, canvas>>

\* the page with its asynchronous work
pageVars == <<page, loaders, upload, server>>

----------------------------------------------------------------------------
(* Bounds of the model *)

MaxRows == 2
MaxCols == 2
MaxOffsets == 2
MaxZoomSteps == 11
MaxLoaders == 2
MaxInFlight == 3
MaxSamples == 25

----------------------------------------------------------------------------
(* Generic helpers *)

Range(s) == {s[i] : i \in 1..Len(s)}

Min2(a, b) == IF a <= b THEN a ELSE b

\* all sequences of pairwise different elements of S, of length at most n
RECURSIVE DistinctSeqs(_, _)
DistinctSeqs(S, n) ==
    IF n = 0 THEN {<<>>}
    ELSE LET shorter == DistinctSeqs(S, n - 1)
         IN  shorter \cup
             {Append(p[1], p[2]) :
                 p \in {q \in shorter \X S : Len(q[1]) = n - 1 /\ q[2] \notin Range(q[1])}}

----------------------------------------------------------------------------
(* JavaScript primitives used by the parser *)

NaN == [nan |-> TRUE, val |-> 0]
Num(n) == [nan |-> FALSE, val |-> n]

Digits == {"0", "1", "2", "3", "4", "5", "6", "7", "8", "9"}

DigitVal(c) ==
    CASE c = "0" -> 0 [] c = "1" -> 1 [] c = "2" -> 2 [] c = "3" -> 3
      [] c = "4" -> 4 [] c = "5" -> 5 [] c = "6" -> 6 [] c = "7" -> 7
      [] c = "8" -> 8 [] c = "9" -> 9

\* String.prototype.startsWith
StartsWith(name, prefix) ==
    /\ Len(name) >= Len(prefix)
    /\ SubSeq(name, 1, Len(prefix)) = prefix

\* String.prototype.substring(from), from counted from 0
Substring(name, from) == SubSeq(name, from + 1, Len(name))

\* first position at or after i that holds no digit (Len(s) + 1 if none)
RECURSIVE DigitsEnd(_, _)
DigitsEnd(s, i) ==
    IF i <= Len(s) /\ s[i] \in Digits THEN DigitsEnd(s, i + 1) ELSE i

\* value of the decimal digits s[i], ..., s[j - 1]
RECURSIVE NatOf(_, _, _)
NatOf(s, i, j) ==
    IF i >= j THEN 0 ELSE NatOf(s, i, j - 1) * 10 + DigitVal(s[j - 1])

\* Number.parseFloat: the longest prefix [sign] digits [. digits] is the number,
\* whatever follows is ignored; NaN when that prefix has no digit.  The value is
\* in hundredths (names of the model carry at most two fractional digits).
\* Exponents, "Infinity" and leading blanks do not occur in the names modelled.
ParseFloat(s) ==
    LET signed  == Len(s) >= 1 /\ s[1] \in {"-", "+"}
        start   == IF signed THEN 2 ELSE 1
        intEnd  == DigitsEnd(s, start)
        hasDot  == intEnd <= Len(s) /\ s[intEnd] = "."
        fracEnd == IF hasDot THEN DigitsEnd(s, intEnd + 1) ELSE intEnd
        nInt    == intEnd - start
        nFrac   == IF hasDot THEN fracEnd - (intEnd + 1) ELSE 0
        d1      == IF nFrac >= 1 THEN DigitVal(s[intEnd + 1]) ELSE 0
        d2      == IF nFrac >= 2 THEN DigitVal(s[intEnd + 2]) ELSE 0
        mag     == NatOf(s, start, intEnd) * 100 + d1 * 10 + d2
    IN  IF nInt = 0 /\ nFrac = 0 THEN NaN
        ELSE Num(IF signed /\ s[1] = "-" THEN 0 - mag ELSE mag)

\* A cell of a column: a number, a numeric string, a non-numeric string, or null.
NumCell(n)  == [k |-> "num", v |-> n]
TextCell    == [k |-> "str", v |-> 0]
NullCell    == [k |-> "null", v |-> 0]
Undefined   == [k |-> "undefined", v |-> 0]

\* Number(x): a number is itself, null is 0, a non-numeric string and undefined
\* are NaN
NumberOf(cell) ==
    CASE cell.k = "num"  -> Num(cell.v)
      [] cell.k = "null" -> Num(0)
      [] OTHER           -> NaN

\* Number(x) || 0: NaN and 0 are falsy
CoerceNumericOrZero(cell) ==
    LET n == NumberOf(cell) IN IF n.nan \/ n.val = 0 THEN 0 ELSE n.val

----------------------------------------------------------------------------
(* The columnar table (what tableFromIPC returns) *)

ChannelIds == <<"LL", "RL", "LP", "RP">>
ChannelSet == Range(ChannelIds)

\* the channel identifier as characters, followed by "_"
ChannelPrefix(ch) ==
    CASE ch = "LL" -> <<"L", "L", "_">>
      [] ch = "RL" -> <<"R", "L", "_">>
      [] ch = "LP" -> <<"L", "P", "_">>
      [] ch = "RP" -> <<"R", "P", "_">>

TimeName == <<"t", "i", "m", "e">>

\* table.getChild(name): the first column of that name, 0 when there is none
GetChild(t, name) ==
    IF \E i \in 1..Len(t.fields) : t.fields[i] = name
    THEN CHOOSE i \in 1..Len(t.fields) :
            /\ t.fields[i] = name
            /\ \A j \in 1..(i - 1) : t.fields[j] # name
    ELSE 0

\* column?.get(i) of the column found by GetChild
CellAt(t, c, i) == IF c = 0 THEN Undefined ELSE t.cols[c][i]

----------------------------------------------------------------------------
(* parseEEGParquet: the channel-tensor builder *)

\* times.push(Number(timeColumn?.get(i)) || 0) for i < table.numRows
TimesOf(t) ==
    LET timeColumn == GetChild(t, TimeName)
    IN  [i \in 1..t.numRows |-> CoerceNumericOrZero(CellAt(t, timeColumn, i))]

\* does the field contribute to the channel: not "time", starts with
\* channel + "_", and the rest parses as a number
ContributesByPrefix(name, ch) ==
    /\ name # TimeName
    /\ StartsWith(name, ChannelPrefix(ch))
Contributes(name, ch) ==
    /\ name # TimeName
    /\ StartsWith(name, ChannelPrefix(ch))
    /\ ~ParseFloat(Substring(name, Len(ChannelPrefix(ch)))).nan

\* columnsByChannel[ch] after the scan of table.schema.fields, in field order
RECURSIVE ColumnsOfAnyChannel(_, _, _)
ColumnsOfAnyChannel(t, ch, n) ==
    IF n = 0 THEN <<>>
    ELSE LET before == ColumnsOfAnyChannel(t, ch, n - 1)
             name   == t.fields[n]
             rest   == ParseFloat(Substring(name, Len(ChannelPrefix(ch))))
         IN  IF name # TimeName /\ ~rest.nan
             THEN Append(before, [name |-> name, frequency |-> rest.val])
             ELSE before
RECURSIVE ColumnsByChannel(_, _, _)
ColumnsByChannel(t, ch, n) ==
    IF n = 0 THEN <<>>
    ELSE LET before == ColumnsByChannel(t, ch, n - 1)
             name   == t.fields[n]
         IN  IF Contributes(name, ch)
             THEN Append(before,
                         [name      |-> name,
                          frequency |-> ParseFloat(
                              Substring(name, Len(ChannelPrefix(ch)))).val])
             ELSE before

\* the comparator of the sort: (a, b) => a.frequency - b.frequency
DescendingFrequency(a, b) == b.frequency - a.frequency
CompareFrequency(a, b) == a.frequency - b.frequency

\* x put behind every element that does not compare greater than it
InsertSorted(sorted, x) ==
    LET later == {i \in 1..Len(sorted) : CompareFrequency(sorted[i], x) > 0}
        at    == IF later = {} THEN Len(sorted) + 1
                 ELSE CHOOSE i \in later : \A j \in later : i <= j
    IN  SubSeq(sorted, 1, at - 1) \o <<x>> \o SubSeq(sorted, at, Len(sorted))

\* Array.prototype.sort with that comparator (a stable sort)
UnsortedColumns(cols) == cols
RECURSIVE SortColumns(_)
SortColumns(cols) ==
    IF cols = <<>> THEN <<>>
    ELSE InsertSorted(SortColumns(SubSeq(cols, 1, Len(cols) - 1)), cols[Len(cols)])

\* channels[ch].frequencies = columnsByChannel[ch].map(col => col.frequency)
FrequenciesOf(sorted) == [i \in 1..Len(sorted) |-> sorted[i].frequency]

\* powerValues[t][freqIndex]: zero-filled, then filled from the column of
\* that name when table.getChild finds it
PowerValuesShort(t, sorted, n) ==
    [r \in 1..n |->
        [i \in 1..(Len(sorted) - 1) |->
            LET column == GetChild(t, sorted[i].name)
            IN  IF column = 0 THEN 0
                ELSE CoerceNumericOrZero(CellAt(t, column, r))]]
PowerValuesOf(t, sorted, n) ==
    [r \in 1..n |->
        [i \in 1..Len(sorted) |->
            LET column == GetChild(t, sorted[i].name)
            IN  IF column = 0 THEN 0
                ELSE CoerceNumericOrZero(CellAt(t, column, r))]]

ChannelDataOf(t, ch) ==
    LET sorted == SortColumns(ColumnsByChannel(t, ch, Len(t.fields)))
    IN  [frequencies |-> FrequenciesOf(sorted),
         powerValues |-> PowerValuesOf(t, sorted, t.numRows)]

\* duration: times[times.length - 1] - times[0], NaN for an empty recording
DurationOf(times) ==
    IF Len(times) = 0 THEN NaN ELSE Num(times[Len(times)] - times[1])

\* samplingRate: 1000 / (times[1] - times[0]) as numerator and denominator
\* (denominator 0 is JavaScript's Infinity); else the sampling_rate metadata
SamplingRateOf(t, times) ==
    IF Len(times) > 1
    THEN [nan |-> FALSE, num |-> 1000, den |-> times[2] - times[1]]
    ELSE LET p == ParseFloat(t.metadata.sampling_rate)
         IN  [nan |-> p.nan, num |-> p.val, den |-> 100]

ParseEEGParquetResult(t) ==
    LET times == TimesOf(t)
    IN  [times    |-> times,
         channels |-> [ch \in ChannelSet |-> ChannelDataOf(t, ch)],
         metadata |-> [patientId    |-> t.metadata.patient_id,
                       recordId     |-> t.metadata.record_id,
                       samplingRate |-> SamplingRateOf(t, times),
                       duration     |-> DurationOf(times),
                       totalFrames  |-> Len(times)]]

----------------------------------------------------------------------------
(* convertToSpectrogramData: the projector *)

\* the row of frequency f: for (t = 0; t < times.length; t++) row.push(pv[t][f])
RECURSIVE RowOfFrequency(_, _, _)
RowOfFrequency(pv, f, n) ==
    IF n = 0 THEN <<>> ELSE Append(RowOfFrequency(pv, f, n - 1), pv[n][f])

\* the rows pushed for frequencies 1..m
RECURSIVE UntransposedRows(_, _, _)
UntransposedRows(pv, m, n) ==
    IF n = 0 THEN <<>> ELSE Append(UntransposedRows(pv, m, n - 1), pv[n])
RECURSIVE TransposedRows(_, _, _)
TransposedRows(pv, m, n) ==
    IF m = 0 THEN <<>>
    ELSE Append(TransposedRows(pv, m - 1, n), RowOfFrequency(pv, m, n))

NoSpectrogram ==
    [times |-> <<>>, frequencies |-> <<>>, powerValues |-> <<>>,
     metadata |-> [patientId |-> "", recordId |-> "",
                   samplingRate |-> [nan |-> TRUE, num |-> 0, den |-> 1],
                   duration |-> NaN]]

\* The outcome of convertToSpectrogramData(parsedData, channel).  A channel that
\* is no key of parsedData.channels makes channelData undefined, and reading
\* channelData.frequencies throws a TypeError.
ConvertToSpectrogramData(parsedData, channel) ==
    IF channel \notin DOMAIN parsedData.channels
    THEN [threw |-> TRUE, error |-> "TypeError", value |-> NoSpectrogram]
    ELSE LET channelData == parsedData.channels[channel]
         IN  [threw |-> FALSE, error |-> "",
              value |->
                [times       |-> parsedData.times,
                 frequencies |-> channelData.frequencies,
                 powerValues |-> TransposedRows(channelData.powerValues,
                                                Len(channelData.frequencies),
                                                Len(parsedData.times)),
                 metadata    |->
                    [patientId    |-> parsedData.metadata.patientId,
                     recordId     |-> parsedData.metadata.recordId,
                     samplingRate |-> parsedData.metadata.samplingRate,
                     duration     |-> parsedData.metadata.duration]]]

----------------------------------------------------------------------------
(* getAveragePowerSpectrum *)

\* the guard that throws "Time indices out of bounds" (indices count from 0)
LaxOutOfBounds(n, startTimeIndex, endTimeIndex) ==
    startTimeIndex < 0 \/ endTimeIndex > n \/ startTimeIndex > endTimeIndex
IndicesOutOfBounds(n, startTimeIndex, endTimeIndex) ==
    startTimeIndex < 0 \/ endTimeIndex >= n \/ startTimeIndex > endTimeIndex

\* sum += powerValues[timeIdx][freqIdx] for timeIdx = from, ..., endTimeIndex;
\* a row index outside the array reads undefined, whose element throws
RECURSIVE SumLoop(_, _, _, _)
SumLoop(pv, f, from, endTimeIndex) ==
    IF from > endTimeIndex THEN [sum |-> 0, reads |-> {}, threw |-> FALSE]
    ELSE IF from + 1 \notin DOMAIN pv
         THEN [sum |-> 0, reads |-> {from}, threw |-> TRUE]
         ELSE LET rest == SumLoop(pv, f, from + 1, endTimeIndex)
              IN  [sum   |-> pv[from + 1][f] + rest.sum,
                   reads |-> {from} \cup rest.reads,
                   threw |-> rest.threw]

\* averagePower[freqIdx] = sum / (endTimeIndex - startTimeIndex + 1), kept as
\* numerator and denominator
AverageOfSkippingFirst(pv, f, startTimeIndex, endTimeIndex) ==
    [num |-> SumLoop(pv, f, startTimeIndex + 1, endTimeIndex).sum,
     den |-> endTimeIndex - startTimeIndex + 1]
AverageOf(pv, f, startTimeIndex, endTimeIndex) ==
    [num |-> SumLoop(pv, f, startTimeIndex, endTimeIndex).sum,
     den |-> endTimeIndex - startTimeIndex + 1]

NoAverages == [ch \in ChannelSet |-> <<>>]

\* The outcome of getAveragePowerSpectrum(parsedData, start, end): the averages
\* per channel, and the row indices of powerValues the call has read.
GetAveragePowerSpectrum(parsedData, startTimeIndex, endTimeIndex) ==
    IF IndicesOutOfBounds(Len(parsedData.times), startTimeIndex, endTimeIndex)
    THEN [threw |-> TRUE, error |-> "Time indices out of bounds",
          value |-> NoAverages, reads |-> {}]
    ELSE LET loops ==
                [ch \in ChannelSet |->
                    [f \in 1..Len(parsedData.channels[ch].frequencies) |->
                        SumLoop(parsedData.channels[ch].powerValues, f,
                                startTimeIndex, endTimeIndex)]]
             reads == UNION {UNION {loops[ch][f].reads :
                                f \in 1..Len(parsedData.channels[ch].frequencies)} :
                             ch \in ChannelSet}
             broke == \E ch \in ChannelSet :
                        \E f \in 1..Len(parsedData.channels[ch].frequencies) :
                            loops[ch][f].threw
         IN  IF broke
             THEN [threw |-> TRUE, error |-> "TypeError",
                   value |-> NoAverages, reads |-> reads]
             ELSE [threw |-> FALSE, error |-> "",
                   value |-> [ch \in ChannelSet |->
                                [f \in 1..Len(parsedData.channels[ch].frequencies) |->
                                    AverageOf(parsedData.channels[ch].powerValues, f,
                                              startTimeIndex, endTimeIndex)]],
                   reads |-> reads]

----------------------------------------------------------------------------
(* MultiChannelSpectrogram: the colour maps and getColor *)

ColorMapNames == {"viridis", "jet", "hot", "grayscale"}

ColorMaps(name) ==
    CASE name = "viridis" ->
            << <<68, 1, 84>>, <<72, 40, 120>>, <<62, 83, 160>>, <<49, 104, 142>>,
               <<38, 130, 142>>, <<31, 158, 137>>, <<53, 183, 121>>,
               <<109, 205, 89>>, <<180, 222, 44>>, <<253, 231, 37>> >>
      [] name = "jet" ->
            << <<0, 0, 131>>, <<0, 60, 170>>, <<5, 255, 255>>, <<255, 255, 0>>,
               <<250, 0, 0>> >>
      [] name = "hot" ->
            << <<0, 0, 0>>, <<230, 0, 0>>, <<255, 210, 0>>, <<255, 255, 255>> >>
      [] name = "grayscale" ->
            << <<0, 0, 0>>, <<255, 255, 255>> >>

NoColor == <<0, 0, 0>>

\* Math.round(num / den) for num >= 0, den > 0: floor(num / den + 0.5)
RoundDiv(num, den) == (2 * num + den) \div (2 * den)

\* getColor(value, min, max).  normalizedValue = (value - min) / (max - min)
\* is kept as the fraction scaled / d of its product with length - 1.  With
\* max = min it is 0 / 0 = NaN: index is NaN, selectedColorMap[NaN] is
\* undefined and reading color1[0] throws a TypeError.
GetColor(value, min, max, colorMap) ==
    LET map == ColorMaps(colorMap)
        d   == max - min
    IN  IF d = 0 THEN [threw |-> TRUE, rgb |-> NoColor]
        ELSE LET scaled == (value - min) * (Len(map) - 1)
                 index  == Min2(scaled \div d, Len(map) - 2)
                 tnum   == scaled - index * d
             IN  [threw |-> FALSE,
                  rgb   |-> [k \in 1..3 |->
                               RoundDiv(map[index + 1][k] * (d - tnum)
                                          + map[index + 2][k] * tnum, d)]]

----------------------------------------------------------------------------
(* MultiChannelSpectrogram: drawing *)

\* all the values of a matrix
ValuesOf(rows) == UNION {Range(rows[i]) : i \in 1..Len(rows)}

MinOf(S) == CHOOSE x \in S : \A y \in S : x <= y
MaxOf(S) == CHOOSE x \in S : \A y \in S : x >= y

\* The double n * (p / 100) for an array of n <= 100 elements and a slider
\* position p (a whole percentage).  p / 100 is rounded to a double first, and
\* so is the product.  Where n * p / 100 is no integer the product lies
\* between the same two integers as n * p / 100.  Where it is an integer the
\* product is that integer, but for the pairs <<n, p>> of ProductAbove, where
\* it is the next double above it (25 * (28 / 100) is 7.000000000000001), and
\* of ProductBelow, where it is the next double below it (50 * (58 / 100) is
\* 28.999999999999996).
ProductAbove ==
    {<<25, 28>>, <<25, 56>>, <<50, 14>>,
     <<50, 28>>, <<50, 56>>, <<75, 28>>, <<75, 56>>, <<75, 68>>,
     <<100, 7>>, <<100, 14>>, <<100, 28>>, <<100, 55>>, <<100, 56>>}
ProductBelow ==
    {<<50, 58>>, <<90, 70>>, <<100, 29>>, <<100, 57>>, <<100, 58>>}

\* Math.floor(n * (lo / 100)) and Math.ceil(n * (hi / 100)); the exact floor
\* and ceiling of n * p / 100 stand next to them
ExactFloor(n, p) == (n * p) \div 100
ExactCeil(n, p) == (n * p + 99) \div 100
StartTimeIndex(n, lo) ==
    IF <<n, lo>> \in ProductBelow THEN ExactFloor(n, lo) - 1 ELSE ExactFloor(n, lo)
EndTimeIndex(n, hi) ==
    IF <<n, hi>> \in ProductAbove THEN ExactCeil(n, hi) + 1 ELSE ExactCeil(n, hi)

\* Array.prototype.slice(start, end) with 0 <= start, indices from 0
Slice(s, start, end) ==
    IF start >= Min2(end, Len(s)) THEN <<>> ELSE SubSeq(s, start + 1, Min2(end, Len(s)))

\* The cell loop: getColor and fillRect for every frequency row i and every
\* column j of the slice.  The first getColor that throws ends the loop.
DrawCells(powerSlice, minPower, maxPower, colorMap) ==
    LET colors == [i \in 1..Len(powerSlice) |->
                    [j \in 1..Len(powerSlice[i]) |->
                        GetColor(powerSlice[i][j], minPower, maxPower, colorMap)]]
        threw  == \E i \in 1..Len(powerSlice) :
                    \E j \in 1..Len(powerSlice[i]) : colors[i][j].threw
    IN  [threw |-> threw,
         cells |-> IF threw THEN <<>>
                   ELSE [i \in 1..Len(powerSlice) |->
                           [j \in 1..Len(powerSlice[i]) |-> colors[i][j].rgb]]]

NoDrawing ==
    [threw |-> TRUE, mode |-> "", times |-> <<>>, timeSlice |-> <<>>,
     startTimeIndex |-> 0, endTimeIndex |-> 0, powerValues |-> <<>>,
     cells |-> <<>>, boundaries |-> <<>>, dividers |-> {}, segments |-> 0]

\* drawSingleSpectrogram
DrawSingleSpectrogram(data, v) ==
    LET conv == ConvertToSpectrogramData(data, v.selectedChannel)
    IN  IF conv.threw THEN NoDrawing
        ELSE
        LET sp         == conv.value
            values     == ValuesOf(sp.powerValues)
            minPower   == IF values = {} THEN 0 ELSE MinOf(values)
            maxPower   == IF values = {} THEN 0 ELSE MaxOf(values)
            start      == StartTimeIndex(Len(sp.times), v.timeRange[1])
            end        == EndTimeIndex(Len(sp.times), v.timeRange[2])
            timeSlice  == Slice(sp.times, start, end)
            powerSlice == [i \in 1..Len(sp.powerValues) |->
                             Slice(sp.powerValues[i], start, end)]
            drawn      == DrawCells(powerSlice, minPower, maxPower, v.colorMap)
        IN  [threw |-> drawn.threw, mode |-> "individual",
             times |-> sp.times, timeSlice |-> timeSlice,
             startTimeIndex |-> start, endTimeIndex |-> end,
             powerValues |-> sp.powerValues,
             cells |-> drawn.cells, boundaries |-> <<>>, dividers |-> {},
             segments |-> 0]

\* [...offsets].sort((a, b) => a - b)
RECURSIVE SortOffsets(_)
SortOffsets(offsets) ==
    IF offsets = <<>> THEN <<>>
    ELSE LET sorted == SortOffsets(SubSeq(offsets, 1, Len(offsets) - 1))
             x      == offsets[Len(offsets)]
             later  == {i \in 1..Len(sorted) : sorted[i] - x > 0}
             at     == IF later = {} THEN Len(sorted) + 1
                       ELSE CHOOSE i \in later : \A j \in later : i <= j
         IN  SubSeq(sorted, 1, at - 1) \o <<x>> \o SubSeq(sorted, at, Len(sorted))

\* currentTimeOffset before segment k (k from 1): 0, then advanced after every
\* segment by the last local time + 1.  (For a recording without frames the
\* sum is NaN, but then no time is pushed either.)
GapFreeAdvance(times) == times[Len(times)]
SegmentAdvance(times) == times[Len(times)] + 1

RECURSIVE CurrentTimeOffset(_, _)
CurrentTimeOffset(times, k) ==
    IF k <= 1 \/ times = <<>> THEN 0
    ELSE CurrentTimeOffset(times, k - 1) + SegmentAdvance(times)

\* concatenatedTimes after the first k segments
RECURSIVE ConcatenatedTimes(_, _)
ConcatenatedTimes(times, k) ==
    IF k = 0 THEN <<>>
    ELSE ConcatenatedTimes(times, k - 1)
            \o [i \in 1..Len(times) |-> CurrentTimeOffset(times, k) + times[i]]

\* value * offsetModifier with offsetModifier = 1 + offset / 10, in tenths
UnmodifiedPower(value, offset) == value * 10
ModifiedPower(value, offset) == value * (10 + offset)

\* concatenatedPowerValues[f] after the first k segments (in tenths)
RECURSIVE ConcatenatedRow(_, _, _)
ConcatenatedRow(row, sortedOffsets, k) ==
    IF k = 0 THEN <<>>
    ELSE ConcatenatedRow(row, sortedOffsets, k - 1)
            \o [i \in 1..Len(row) |-> ModifiedPower(row[i], sortedOffsets[k])]

\* the divider loop: segmentEndTime grows by timeSegmentLength for every
\* offset but the last one
AllSegmentEnds(timeSegmentLength, k) ==
    [j \in 1..k |-> j * timeSegmentLength]
SegmentEndTimes(timeSegmentLength, k) ==
    [j \in 1..(k - 1) |-> j * timeSegmentLength]

\* a divider is stroked when segmentEndTime >= startTimeIndex and
\* segmentEndTime <= endTimeIndex
DividerVisible(segmentEndTime, startTimeIndex, endTimeIndex) ==
    segmentEndTime >= startTimeIndex /\ segmentEndTime <= endTimeIndex

\* drawCombinedSpectrogram (called with a non-empty offsets list)
DrawCombinedSpectrogram(data, v) ==
    LET sortedOffsets == SortOffsets(v.offsets)
        conv          == ConvertToSpectrogramData(data, v.selectedChannel)
    IN  IF conv.threw THEN NoDrawing
        ELSE
        LET sp          == conv.value
            k           == Len(sortedOffsets)
            times       == ConcatenatedTimes(sp.times, k)
            powers      == [f \in 1..Len(sp.frequencies) |->
                              ConcatenatedRow(sp.powerValues[f], sortedOffsets, k)]
            values      == ValuesOf(powers)
            minPower    == IF values = {} THEN 0 ELSE MinOf(values)
            maxPower    == IF values = {} THEN 0 ELSE MaxOf(values)
            start       == StartTimeIndex(Len(times), v.timeRange[1])
            end         == EndTimeIndex(Len(times), v.timeRange[2])
            timeSlice   == Slice(times, start, end)
            powerSlice  == [i \in 1..Len(powers) |-> Slice(powers[i], start, end)]
            drawn       == DrawCells(powerSlice, minPower, maxPower, v.colorMap)
            boundaries  == SegmentEndTimes(Len(sp.times), k)
        IN  [threw |-> drawn.threw, mode |-> "combined",
             times |-> times, timeSlice |-> timeSlice,
             startTimeIndex |-> start, endTimeIndex |-> end,
             powerValues |-> powers,
             cells |-> drawn.cells,
             boundaries |-> IF drawn.threw THEN <<>> ELSE boundaries,
             dividers |-> IF drawn.threw THEN {}
                          ELSE {b \in Range(boundaries) :
                                  DividerVisible(b, start, end)},
             segments |-> IF drawn.threw THEN 0 ELSE k]

\* the try / catch of drawSpectrogram: a drawing that throws leaves the
\* message "Error rendering spectrogram" on the canvas
RenderStatusNoData(threw) == IF threw THEN "nodata" ELSE "ok"
RenderStatus(threw) == IF threw THEN "error" ELSE "ok"

\* the values of the props and of the state that a drawSpectrogram closure
\* reads
RenderOptions(v) ==
    [kind            |-> v.kind,
     offsets         |-> v.offsets,
     colorMap        |-> v.colorMap,
     timeRange       |-> v.timeRange,
     zoomLevel       |-> v.zoomLevel,
     selectedChannel |-> v.selectedChannel,
     selectedOffset  |-> v.selectedOffset,
     viewMode        |-> v.viewMode]

\* the screen of a view without data: the card "No spectrogram data
\* available", and no canvas
NoCanvas ==
    [NoDrawing EXCEPT !.threw = FALSE]
        @@ [status |-> "nodata", under |-> "blank", cellScale |-> 10,
            drawnWith |-> [kind |-> "", offsets |-> <<>>, colorMap |-> "",
                           timeRange |-> <<0, 0>>, zoomLevel |-> 0,
                           selectedChannel |-> "", selectedOffset |-> <<>>,
                           viewMode |-> ""]]

\* ctx.clearRect(0, 0, canvas.width, canvas.height): what is left of the
\* earlier content of the surface under the new drawing
KeepSurface(prior) == IF prior.status = "nodata" THEN "blank" ELSE "stale"
ClearRect(prior) == "blank"

\* the finally of drawSpectrogram: setIsLoading(false) follows the
\* setIsLoading(true) of a call that has passed the early returns
IsLoadingStuck(started, isLoading) == IF started THEN TRUE ELSE isLoading
IsLoadingAfter(started, isLoading) == IF started THEN FALSE ELSE isLoading

\* the view with modes draws the combined spectrogram in combined mode with
\* offsets, and the single one otherwise; the view without modes always draws
\* the single one
DrawsCombined(v) ==
    /\ v.kind = "modes"
    /\ ~(v.viewMode = "individual" /\ v.selectedOffset # <<>>)
    /\ v.viewMode = "combined" /\ Len(v.offsets) > 0

\* What is on the screen after drawSpectrogram.  Without data the call
\* returns at once; the component shows "No spectrogram data available" and
\* has no canvas.  Otherwise the canvas is cleared and drawn; an exception of
\* the drawing is caught and "Error rendering spectrogram" is written on the
\* canvas.  fillRect gets the cell size times zoomLevel.
DrawSpectrogram(prior, hasData, data, v) ==
    IF ~hasData
    THEN NoCanvas
    ELSE LET surface == ClearRect(prior)
             d == IF DrawsCombined(v)
                  THEN DrawCombinedSpectrogram(data, v)
                  ELSE DrawSingleSpectrogram(data, v)
         IN  d @@ [status    |-> RenderStatus(d.threw),
                   under     |-> surface,
                   cellScale |-> v.zoomLevel,
                   drawnWith |-> RenderOptions(v)]

----------------------------------------------------------------------------
(* Input tables *)

LL_0p5  == <<"L", "L", "_", "0", ".", "5">>
LL_0p50 == <<"L", "L", "_", "0", ".", "5", "0">>
LL_3p0  == <<"L", "L", "_", "3", ".", "0">>
LL_10p2 == <<"L", "L", "_", "1", "0", ".", "2">>
LL_3x   == <<"L", "L", "_", "3", "x">>
LL_ab   == <<"L", "L", "_", "a", "b">>
RP_1    == <<"R", "P", "_", "1">>
XX_1    == <<"X", "X", "_", "1">>

\* column names: the time axis, well-formed power columns, two spellings of
\* one frequency, a suffix with trailing text, a suffix that is no number,
\* and an unknown channel prefix
ColumnNames ==
    {TimeName, LL_0p5, LL_0p50, LL_3p0, LL_10p2, LL_3x, LL_ab, RP_1, XX_1}

\* the cell of column c (its position in the schema) at row r, for each way of
\* filling a table: every cell a different number; text in the odd rows; null
\* everywhere; one number everywhere; a time axis that starts below zero
CellOf(fill, name, c, r) ==
    CASE fill = "distinct" -> NumCell(10 * c + r)
      [] fill = "text"     -> IF r % 2 = 1 THEN TextCell ELSE NumCell(10 * c + r)
      [] fill = "null"     -> NullCell
      [] fill = "constant" -> IF name = TimeName THEN NumCell(2 * r) ELSE NumCell(1)
      [] fill = "negative" -> IF name = TimeName THEN NumCell(2 * r - 5)
                              ELSE NumCell(10 * c + r)

NoMetadata == [patient_id |-> "", record_id |-> "", sampling_rate |-> <<"0">>]
SomeMetadata ==
    [patient_id |-> "P1", record_id |-> "R1", sampling_rate |-> <<"2", "0", "0">>]

MkTable(names, n, fill, metadata) ==
    [numRows  |-> n,
     fields   |-> names,
     cols     |-> [c \in 1..Len(names) |->
                    [r \in 1..n |-> CellOf(fill, names[c], c, r)]],
     metadata |-> metadata]

\* the column names of the spec's ordering example, without a time column
OrderingExample == MkTable(<<LL_3p0, LL_0p5, LL_10p2>>, 1, "distinct", SomeMetadata)

\* three frames of two frequencies with the powers [[1,2],[3,4],[5,6]]
AverageExample ==
    [numRows  |-> 3,
     fields   |-> <<TimeName, LL_3p0, LL_0p5>>,
     cols     |-> << <<NumCell(0), NumCell(2), NumCell(4)>>,
                     <<NumCell(2), NumCell(4), NumCell(6)>>,
                     <<NumCell(1), NumCell(3), NumCell(5)>> >>,
     metadata |-> SomeMetadata]

BuilderTables ==
    {MkTable(names, n, fill, NoMetadata) :
        names \in DistinctSeqs(ColumnNames, MaxCols),
        n \in 0..MaxRows,
        fill \in {"distinct", "text", "null"}}
    \cup {OrderingExample, AverageExample}

----------------------------------------------------------------------------
(* EEGPatientData: the page that holds the records and the recordings *)

Null == "null"

\* a recording without frames and without columns
EmptyRecording ==
    [times    |-> <<>>,
     channels |-> [ch \in ChannelSet |-> [frequencies |-> <<>>, powerValues |-> <<>>]],
     metadata |-> [patientId |-> "", recordId |-> "",
                   samplingRate |-> [nan |-> TRUE, num |-> 0, den |-> 1],
                   duration |-> NaN, totalFrames |-> 0]]

\* a row of EEGData, reduced to the fields that identify it
EEGRecord(patient, eeg, spectrogram) ==
    [patient_id |-> patient, eeg_id |-> eeg, spectrogram_id |-> spectrogram]

\* the rows of /sample_data/sample_train.csv
CsvRecords == << EEGRecord("P1", "E1", "S1"), EEGRecord("P2", "E2", "S2") >>

\* the mock rows generated when the CSV cannot be loaded: for patient i and
\* row j the ids EEG00i_j and SPEC00i_j (the code generates 5 patients with
\* 5 rows each)
MockPatients == 1
MockRowsPerPatient == 1

MockRecords ==
    [n \in 1..(MockPatients * MockRowsPerPatient) |->
        LET i == (n - 1) \div MockRowsPerPatient
            j == (n - 1) % MockRowsPerPatient
        IN  EEGRecord("P00" \o ToString(i + 1),
                      "EEG00" \o ToString(i + 1) \o "_" \o ToString(j),
                      "SPEC00" \o ToString(i + 1) \o "_" \o ToString(j))]

\* the ids that name a file /sample_data/spectrograms/<id>.parquet
SpectrogramIds == {"S1", "S2"}

\* what the server holds for an id: nothing (HEAD is not ok), a file that
\* decodes, a file that does not decode; or the server cannot be reached
FileStates == {"absent", "good", "corrupt", "unreachable"}

\* the table in the file of a spectrogram id
FileTable(id) ==
    MkTable(<<TimeName, LL_3p0, LL_0p5>>, 2, "distinct",
            [patient_id |-> "", record_id |-> id, sampling_rate |-> <<"0">>])

\* a buffer handed to parseEEGParquet: tableFromIPC throws on the malformed
\* one and returns the table of the well-formed one
MalformedBuffer == [wellFormed |-> FALSE, table |-> MkTable(<<>>, 0, "null", NoMetadata)]
WellFormedBuffer(t) == [wellFormed |-> TRUE, table |-> t]

\* the files a user uploads: ten random bytes, a recording with its patient
\* and record ids in the metadata, and one without metadata
UploadBuffers ==
    {MalformedBuffer,
     WellFormedBuffer(MkTable(<<TimeName, LL_3p0>>, 1, "distinct",
                              [patient_id |-> "P1", record_id |-> "S1",
                               sampling_rate |-> <<"0">>])),
     WellFormedBuffer(MkTable(<<TimeName, RP_1>>, 1, "distinct", NoMetadata))}

\* parseEEGParquet(buffer): throws when the buffer does not decode
ParseBuffer(buffer) ==
    IF buffer.wellFormed
    THEN [threw |-> FALSE, value |-> ParseEEGParquetResult(buffer.table)]
    ELSE [threw |-> TRUE, value |-> EmptyRecording]

\* x || fallback for a string
OrElse(x, fallback) == IF x = "" THEN fallback ELSE x

\* combineRecordsByEEGSpectrogram: one record per pair of eeg_id and
\* spectrogram_id (every pair occurs once in the rows of the model)
CombineRecordsByEEGSpectrogram(records) == records

\* the reduce of processEEGData: the records of every patient, in order;
\* records without patient_id are skipped
GroupByPatient(records) ==
    [p \in {records[i].patient_id : i \in 1..Len(records)} \ {""} |->
        SelectSeq(records, LAMBDA r : r.patient_id = p)]

\* [...new Set(records.map(r => r.spectrogram_id))]: first occurrences, in order
RECURSIVE UniqueSpectrogramIds(_)
UniqueSpectrogramIds(records) ==
    IF records = <<>> THEN <<>>
    ELSE LET before == UniqueSpectrogramIds(SubSeq(records, 1, Len(records) - 1))
             id     == records[Len(records)].spectrogram_id
         IN  IF \E i \in 1..Len(before) : before[i] = id THEN before
             ELSE Append(before, id)

\* the keys `${patient_id}_${eeg_id}` of the mock spectrogramData
SpectrogramDataKeys(records) ==
    {<<records[i].patient_id, records[i].eeg_id>> :
        i \in {j \in 1..Len(records) :
                 records[j].patient_id # "" /\ records[j].eeg_id # ""}}

UploadFailedMessage ==
    "Failed to parse Parquet file. Please ensure it's a valid Parquet format."

\* the useState defaults of EEGPatientData
InitialPage ==
    [eegData            |-> <<>>,
     multiChannelData   |-> <<>>,
     spectrogramData    |-> {},
     loading            |-> TRUE,
     error              |-> Null,
     groupedByPatient   |-> <<>>,
     selectedPatient    |-> Null,
     activeTab          |-> "records",
     fileUploaded       |-> FALSE,
     loadingSpectrogram |-> FALSE,
     uploadModalOpen    |-> FALSE,
     dataSource         |-> "csv",
     crashed            |-> FALSE]

\* processEEGData(records), called by a closure that saw dataSource
ProcessEEGData(p, records, dataSource) ==
    LET combinedRecords == CombineRecordsByEEGSpectrogram(records)
    IN  [p EXCEPT !.eegData = combinedRecords,
                  !.groupedByPatient = GroupByPatient(combinedRecords),
                  !.spectrogramData = IF dataSource = "csv"
                                      THEN SpectrogramDataKeys(combinedRecords)
                                      ELSE @,
                  !.loading = FALSE,
                  !.loadingSpectrogram = FALSE]

\* the patientRecords memo spreads groupedByPatient[selectedPatient]; for a
\* selected patient that has no group the render throws and React unmounts
\* the page
RenderThrows(p) ==
    /\ p.selectedPatient # Null
    /\ p.selectedPatient \notin DOMAIN p.groupedByPatient

\* what the page renders: the skeleton while loading, the alert for an error,
\* else the panels
Screen(p) ==
    IF p.crashed THEN "crashed"
    ELSE IF p.loading THEN "skeleton"
    ELSE IF p.error # Null THEN "alert"
    ELSE "panels"

\* The MultiChannelSpectrogram views on the screen: in the Spectrograms tab of
\* the selected patient, once no spectrogram is loading, one view per record
\* with the recording stored under its spectrogram_id, or null.  (The view in
\* the record details dialog is not modelled.)
DisplayedViews(p) ==
    IF /\ Screen(p) = "panels"
       /\ p.selectedPatient # Null
       /\ p.activeTab = "spectrograms"
       /\ ~p.loadingSpectrogram
    THEN LET records == p.groupedByPatient[p.selectedPatient]
         IN  {[record |-> records[i],
               hasData |-> records[i].spectrogram_id \in DOMAIN p.multiChannelData,
               data |-> IF records[i].spectrogram_id \in DOMAIN p.multiChannelData
                        THEN p.multiChannelData[records[i].spectrogram_id]
                        ELSE EmptyRecording] : i \in 1..Len(records)}
    ELSE {}

\* a loader: the ids it walks through (a snapshot taken when it started), the
\* position of the id it waits for, which request it waits for, and its
\* parquetLoaded / loadedAny flag
Loader(kind, ids) ==
    [kind |-> kind, ids |-> ids, index |-> 1, phase |-> "head", loadedAny |-> FALSE]

NoUpload == [phase |-> "idle", buffer |-> MalformedBuffer, dataSource |-> "csv",
             shown |-> {}]

\* no page is mounted
PageIdle ==
    /\ page = [InitialPage EXCEPT !.loading = FALSE]
    /\ loaders = <<>>
    /\ upload = NoUpload
    /\ server = [csv |-> "absent", files |-> [id \in {} |-> "absent"], heads |-> {}]

NoHook ==
    [mounted |-> FALSE, eegId |-> Null, spectrogramId |-> Null,
     eegData |-> [present |-> FALSE, id |-> ""],
     spectrogramData |-> [present |-> FALSE, id |-> ""],
     loading |-> FALSE, error |-> Null, inFlight |-> <<>>]

HookIdle == hook = NoHook

----------------------------------------------------------------------------
(* State *)

NoCall ==
    [op |-> "none", channel |-> "", startTimeIndex |-> 0, endTimeIndex |-> 0,
     threw |-> FALSE, error |-> "", spectrogram |-> NoSpectrogram,
     averages |-> NoAverages, reads |-> {}]

\* the state of a MultiChannelSpectrogram after its first render and effects:
\* the useState defaults, and selectedOffset set to offsets[0] by the effect
\* (zoomLevel is kept in tenths; kind tells the view with the individual and
\* combined modes from the one that always draws the single spectrogram)
InitialView(offsets) ==
    [mounted         |-> TRUE,
     kind            |-> "modes",
     offsets         |-> offsets,
     colorMap        |-> "viridis",
     timeRange       |-> <<0, 100>>,
     zoomLevel       |-> 10,
     isLoading       |-> FALSE,
     selectedChannel |-> "LL",
     selectedOffset  |-> IF Len(offsets) > 0 THEN <<offsets[1]>> ELSE <<>>,
     viewMode        |-> "individual"]

NoView == [InitialView(<<>>) EXCEPT !.mounted = FALSE]
BlankCanvas == NoCanvas

\* a channel identifier that is no key of ParsedEEGData.channels
UnknownChannel == "F3"

Init ==
    /\ table \in BuilderTables
    /\ recording = EmptyRecording
    /\ built = FALSE
    /\ call = NoCall
    /\ view = NoView
    /\ canvas = BlankCanvas
    /\ PageIdle
    /\ HookIdle

\* parseEEGParquet(buffer) returns the recording built from the decoded table
\* (a mounted view receives it as its data prop and its effect redraws)
ParseEEGParquet ==
    /\ ~built
    /\ built' = TRUE
    /\ recording' = ParseEEGParquetResult(table)
    /\ canvas' = IF view.mounted
                 THEN DrawSpectrogram(canvas, TRUE, recording', view)
                 ELSE canvas
    /\ UNCHANGED <<table, call, view>>
    /\ UNCHANGED <<pageVars, hook>>

\* a call convertToSpectrogramData(recording, channel)
ConvertCall ==
    /\ built
    /\ \E channel \in ChannelSet \cup {UnknownChannel} :
        LET r == ConvertToSpectrogramData(recording, channel)
        IN  call' = [op |-> "convert", channel |-> channel,
                     startTimeIndex |-> 0, endTimeIndex |-> 0,
                     threw |-> r.threw, error |-> r.error,
                     spectrogram |-> r.value,
                     averages |-> NoAverages, reads |-> {}]
    /\ UNCHANGED <<table, recording, built, view, canvas>>
    /\ UNCHANGED <<pageVars, hook>>

\* a call getAveragePowerSpectrum(recording, startTimeIndex, endTimeIndex)
AverageCall ==
    /\ built
    /\ \E startTimeIndex \in (0 - 1)..Len(recording.times),
          endTimeIndex \in (0 - 1)..Len(recording.times) :
        LET r == GetAveragePowerSpectrum(recording, startTimeIndex, endTimeIndex)
        IN  call' = [op |-> "average", channel |-> "",
                     startTimeIndex |-> startTimeIndex,
                     endTimeIndex |-> endTimeIndex,
                     threw |-> r.threw, error |-> r.error,
                     spectrogram |-> NoSpectrogram,
                     averages |-> r.value, reads |-> r.reads]
    /\ UNCHANGED <<table, recording, built, view, canvas>>
    /\ UNCHANGED <<pageVars, hook>>

Next == ParseEEGParquet \/ ConvertCall \/ AverageCall

Spec == Init /\ [][Next]_vars

----------------------------------------------------------------------------
(* The view: one MultiChannelSpectrogram of a record *)

\* the offsets of a record, in seconds
OffsetValues == {0, 5}

\* the slider positions of the model, in percent
Percentages == {0, 25, 100}

RenderTables ==
    {MkTable(names, n, fill, NoMetadata) :
        names \in {<<TimeName, LL_3p0, LL_0p5>>, <<RP_1, LL_0p5>>},
        n \in 0..MaxRows,
        fill \in {"distinct", "constant", "negative"}}

RECURSIVE SeqsUpTo(_, _)
SeqsUpTo(S, n) ==
    IF n = 0 THEN {<<>>}
    ELSE LET shorter == SeqsUpTo(S, n - 1)
         IN  shorter \cup {Append(q, x) : q \in shorter, x \in S}

InitRender ==
    /\ table \in RenderTables
    /\ recording = EmptyRecording
    /\ built = FALSE
    /\ call = NoCall
    /\ view \in {InitialView(offsets) : offsets \in SeqsUpTo(OffsetValues, MaxOffsets)}
    /\ canvas = BlankCanvas
    /\ PageIdle
    /\ HookIdle

\* a change of the view's state, followed by the redraw of its effect
Redraw(newView) ==
    /\ built
    /\ view.mounted
    /\ view' = [newView EXCEPT !.isLoading = IsLoadingAfter(built, @)]
    /\ canvas' = DrawSpectrogram(canvas, built, recording, newView)
    /\ UNCHANGED <<table, recording, built, call>>
    /\ UNCHANGED <<pageVars, hook>>

SetColorMap ==
    \E colorMap \in ColorMapNames \ {view.colorMap} :
        Redraw([view EXCEPT !.colorMap = colorMap])

SetSelectedChannel ==
    \E channel \in ChannelSet \ {view.selectedChannel} :
        Redraw([view EXCEPT !.selectedChannel = channel])

SetTimeRange ==
    \E lo \in Percentages, hi \in Percentages :
        /\ lo <= hi
        /\ <<lo, hi>> # view.timeRange
        /\ Redraw([view EXCEPT !.timeRange = <<lo, hi>>])

\* the button that toggles the mode (the view with modes has it)
ToggleViewMode ==
    /\ view.kind = "modes"
    /\ Redraw([view EXCEPT !.viewMode =
                IF view.viewMode = "individual" THEN "combined" ELSE "individual"])

\* a click on an offset badge (shown for several offsets; in the view with
\* modes only in individual mode).  The redraw effect of the view with modes
\* depends on selectedOffset; the one of the view without modes does not, and
\* nothing is drawn.
ClickOffset ==
    /\ view.viewMode = "individual"
    /\ Len(view.offsets) > 1
    /\ \E i \in 1..Len(view.offsets) :
        /\ <<view.offsets[i]>> # view.selectedOffset
        /\ IF view.kind = "modes"
           THEN Redraw([view EXCEPT !.selectedOffset = <<view.offsets[i]>>])
           ELSE /\ built
                /\ view.mounted
                /\ view' = [view EXCEPT !.selectedOffset = <<view.offsets[i]>>]
                /\ UNCHANGED <<table, recording, built, call, canvas>>
                /\ UNCHANGED <<pageVars, hook>>

NextRender ==
    \/ ParseEEGParquet
    \/ SetColorMap
    \/ SetSelectedChannel
    \/ SetTimeRange
    \/ ToggleViewMode
    \/ ClickOffset

SpecRender == InitRender /\ [][NextRender]_vars

----------------------------------------------------------------------------
(* The two MultiChannelSpectrogram components with all their controls *)

\* the recordings the views are given: two frames of two LL frequencies with
\* different powers, and with one power everywhere
ViewTables ==
    {MkTable(<<TimeName, LL_3p0, LL_0p5>>, 2, fill, NoMetadata) :
        fill \in {"distinct", "constant"}}

InitView ==
    /\ table \in ViewTables
    /\ recording = EmptyRecording
    /\ built = FALSE
    /\ call = NoCall
    /\ \E kind \in {"modes", "simple"}, offsets \in {<<>>, <<5, 0>>} :
        view = [InitialView(offsets) EXCEPT !.kind = kind]
    /\ canvas = BlankCanvas
    /\ PageIdle
    /\ HookIdle

\* zoom levels of the model: within MaxZoomSteps clicks of the default
ZoomModelled(zoomLevel) ==
    /\ zoomLevel >= 10 - 2 * MaxZoomSteps
    /\ zoomLevel <= 10 + 2 * MaxZoomSteps

\* Math.min(prev + 0.2, 3) and Math.max(prev - 0.2, 0.5), in tenths.  (The
\* doubles drift: three steps up from 1 give 1.5999999999999999.  Math.min and
\* Math.max bound the result all the same.)
ZoomedInUncapped(zoomLevel) == zoomLevel + 2
ZoomedIn(zoomLevel) == Min2(zoomLevel + 2, 30)
ZoomedOut(zoomLevel) == IF zoomLevel - 2 >= 5 THEN zoomLevel - 2 ELSE 5

\* handleZoomIn
ZoomIn ==
    LET zoomLevel == ZoomedIn(view.zoomLevel)
    IN  /\ ZoomModelled(zoomLevel)
        /\ zoomLevel # view.zoomLevel
        /\ Redraw([view EXCEPT !.zoomLevel = zoomLevel])

\* handleZoomOut
ZoomOut ==
    LET zoomLevel == ZoomedOut(view.zoomLevel)
    IN  /\ ZoomModelled(zoomLevel)
        /\ zoomLevel # view.zoomLevel
        /\ Redraw([view EXCEPT !.zoomLevel = zoomLevel])

\* the refresh button: drawSpectrogram() with the values of the last render
Refresh == Redraw(view)

NextView ==
    \/ ParseEEGParquet
    \/ SetColorMap
    \/ SetSelectedChannel
    \/ SetTimeRange
    \/ ToggleViewMode
    \/ ClickOffset
    \/ ZoomIn
    \/ ZoomOut
    \/ Refresh

SpecView == InitView /\ [][NextView]_vars

----------------------------------------------------------------------------
(* A view whose offsets prop changes while it stays mounted *)

\* the effect on [offsets, selectedOffset]: the first offset is selected when
\* nothing is selected yet
InitialOffsetEffect(v) ==
    IF Len(v.offsets) > 0 /\ v.selectedOffset = <<>>
    THEN [v EXCEPT !.selectedOffset = <<v.offsets[1]>>]
    ELSE v

InitOffsets ==
    /\ table \in ViewTables
    /\ recording = EmptyRecording
    /\ built = FALSE
    /\ call = NoCall
    /\ \E kind \in {"modes", "simple"}, offsets \in SeqsUpTo(OffsetValues, MaxOffsets) :
        view = [InitialView(offsets) EXCEPT !.kind = kind]
    /\ canvas = BlankCanvas
    /\ PageIdle
    /\ HookIdle

\* The page renders the views of the records of the current page with
\* key={idx}: after a change of the page the mounted view at an index receives
\* the offsets of another record.  The view keeps its state; the effect on
\* [offsets, selectedOffset] runs, and the redraw effect runs when
\* selectedOffset has changed (offsets is none of its dependencies).
SetOffsetsProp ==
    /\ view.mounted
    /\ \E offsets \in SeqsUpTo(OffsetValues, MaxOffsets) \ {view.offsets} :
        LET newView == InitialOffsetEffect([view EXCEPT !.offsets = offsets])
            redraws == /\ built
                       /\ view.kind = "modes"
                       /\ newView.selectedOffset # view.selectedOffset
        IN  /\ view' = IF redraws
                       THEN [newView EXCEPT !.isLoading = IsLoadingAfter(built, @)]
                       ELSE newView
            /\ canvas' = IF redraws
                         THEN DrawSpectrogram(canvas, built, recording, newView)
                         ELSE canvas
    /\ UNCHANGED <<table, recording, built, call>>
    /\ UNCHANGED <<pageVars, hook>>

NextOffsets ==
    \/ ParseEEGParquet
    \/ ToggleViewMode
    \/ ClickOffset
    \/ SetOffsetsProp

SpecOffsets == InitOffsets /\ [][NextOffsets]_vars

----------------------------------------------------------------------------
(* The time window of a drawing, for longer time axes *)

\* a time axis of n samples (only its length matters to the window), and the
\* two thumbs of the slider (max = 100, step = 1)
WindowInput(n, lo, hi) ==
    [op |-> "input", n |-> n, timeRange |-> <<lo, hi>>,
     startTimeIndex |-> 0, endTimeIndex |-> 0, timeSlice |-> <<>>]

InitWindow ==
    /\ table = MkTable(<<>>, 0, "null", NoMetadata)
    /\ recording = EmptyRecording
    /\ built = FALSE
    /\ \E n \in 0..MaxSamples, lo \in 0..100, hi \in 0..100 :
        /\ lo <= hi
        /\ call = WindowInput(n, lo, hi)
    /\ view = NoView
    /\ canvas = BlankCanvas
    /\ PageIdle
    /\ HookIdle

\* "Apply time range filter" of both drawing functions: startTimeIndex,
\* endTimeIndex and times.slice(startTimeIndex, endTimeIndex); the sample at
\* index i of the axis is written i
ApplyTimeRange ==
    /\ call.op = "input"
    /\ LET times == [i \in 1..call.n |-> i - 1]
           start == StartTimeIndex(call.n, call.timeRange[1])
           end   == EndTimeIndex(call.n, call.timeRange[2])
       IN  call' = [call EXCEPT !.op = "window",
                                !.startTimeIndex = start,
                                !.endTimeIndex = end,
                                !.timeSlice = Slice(times, start, end)]
    /\ UNCHANGED <<table, recording, built, view, canvas>>
    /\ UNCHANGED <<pageVars, hook>>

NextWindow == ApplyTimeRange

SpecWindow == InitWindow /\ [][NextWindow]_vars

----------------------------------------------------------------------------
(* EEGPatientData: loading, uploading and the background loaders *)

\* every id a request of the model can name: the ids of the CSV rows, of the
\* mock rows, and of the record made for an upload without record_id
RequestableIds ==
    SpectrogramIds \cup {MockRecords[i].spectrogram_id : i \in 1..Len(MockRecords)}
        \cup {"SPEC2000"}

\* the page, its loaders and the server, as the handlers pass them on; blocked
\* marks a step that would start more loaders than the model allows
AppState(p, ls, sv) == [page |-> p, loaders |-> ls, server |-> sv, blocked |-> FALSE]

\* fetch(specUrl, { method: 'HEAD' }) is issued
IssueHead(sv, id) == [sv EXCEPT !.heads = @ \cup {id}]

\* a loader starts: setLoadingSpectrogram(true), then the loop reaches its
\* first id and waits for the HEAD response; without ids it ends at once
StartLoader(s, kind, ids) ==
    IF ids = <<>> THEN [s EXCEPT !.page.loadingSpectrogram = FALSE]
    ELSE IF Len(s.loaders) >= MaxLoaders THEN [s EXCEPT !.blocked = TRUE]
    ELSE [s EXCEPT !.page.loadingSpectrogram = TRUE,
                   !.loaders = Append(@, Loader(kind, ids)),
                   !.server = IssueHead(@, ids[1])]

\* neededSpectrogramIds.filter(id => !multiChannelData[id])
MissingIds(p) ==
    SelectSeq(UniqueSpectrogramIds(p.groupedByPatient[p.selectedPatient]),
              LAMBDA id : id \notin DOMAIN p.multiChannelData)

\* the effect on [selectedPatient, groupedByPatient, multiChannelData]: with a
\* selected patient that has missing spectrograms, loadMissingSpectrograms
\* starts
LoadMissingAfterEveryRender(s, depsChanged) ==
    IF \/ s.page.selectedPatient = Null
       \/ s.page.selectedPatient \notin DOMAIN s.page.groupedByPatient
    THEN s
    ELSE StartLoader(s, "missing", MissingIds(s.page))
LoadMissingEffect(s, depsChanged) ==
    IF \/ ~depsChanged
       \/ s.page.selectedPatient = Null
       \/ s.page.selectedPatient \notin DOMAIN s.page.groupedByPatient
    THEN s
    ELSE StartLoader(s, "missing", MissingIds(s.page))

\* the render that follows a state change, and then its effects
Commit(s, depsChanged) ==
    IF RenderThrows(s.page) THEN [s EXCEPT !.page.crashed = TRUE]
    ELSE LoadMissingEffect(s, depsChanged)

\* the assignment of the variables from a state the handlers computed
Becomes(s) ==
    /\ ~s.blocked
    /\ page' = s.page
    /\ loaders' = s.loaders
    /\ server' = s.server

Current == AppState(page, loaders, server)

\* the pipeline variables while only the page is modelled
PipelineIdle ==
    /\ table = MkTable(<<>>, 0, "null", NoMetadata)
    /\ recording = EmptyRecording
    /\ built = FALSE
    /\ call = NoCall
    /\ view = NoView
    /\ canvas = BlankCanvas

\* the page is mounted and loadData waits for the CSV
InitPage ==
    /\ PipelineIdle
    /\ HookIdle
    /\ page = InitialPage
    /\ loaders = <<>>
    /\ upload = [NoUpload EXCEPT !.phase = "mounting"]
    /\ \E csv \in {"good", "absent"}, files \in [SpectrogramIds -> FileStates] :
        server = [csv   |-> csv,
                  files |-> [id \in RequestableIds |->
                               IF id \in SpectrogramIds THEN files[id] ELSE "absent"],
                  heads |-> {}]

\* loadData, the CSV has rows: processEEGData(records), loadAllSpectrograms
\* starts (on the first 20 ids; the model has fewer), finally setLoading(false)
LoadDataCsv ==
    /\ upload.phase = "mounting"
    /\ server.csv = "good"
    /\ LET processed == ProcessEEGData(page, CsvRecords, "csv")
           started   == StartLoader(AppState(processed, loaders, server), "all",
                                    UniqueSpectrogramIds(CsvRecords))
       IN  Becomes(Commit(started, TRUE))
    /\ upload' = [upload EXCEPT !.phase = "idle"]
    /\ UNCHANGED <<pipelineVars, hook>>

\* loadData, the CSV cannot be loaded: the mock rows are processed instead
LoadDataFallback ==
    /\ upload.phase = "mounting"
    /\ server.csv = "absent"
    /\ Becomes(Commit(AppState(ProcessEEGData(page, MockRecords, "csv"),
                               loaders, server), TRUE))
    /\ upload' = [upload EXCEPT !.phase = "idle"]
    /\ UNCHANGED <<pipelineVars, hook>>

\* a click on a patient of the list
SelectPatient ==
    /\ Screen(page) = "panels"
    /\ \E patientId \in DOMAIN page.groupedByPatient :
        /\ patientId # page.selectedPatient \/ page.activeTab # "records"
        /\ Becomes(Commit([Current EXCEPT !.page.selectedPatient = patientId,
                                          !.page.activeTab = "records"],
                          patientId # page.selectedPatient))
    /\ UNCHANGED <<pipelineVars, upload, hook>>

\* a click on a tab of the selected patient
SetActiveTab ==
    /\ Screen(page) = "panels"
    /\ page.selectedPatient # Null
    /\ \E tab \in {"records", "spectrograms", "dashboard"} \ {page.activeTab} :
        Becomes(Commit([Current EXCEPT !.page.activeTab = tab], FALSE))
    /\ UNCHANGED <<pipelineVars, upload, hook>>

\* the Upload Data button and the Cancel button of the dialog
SetUploadModalOpen ==
    /\ Screen(page) = "panels"
    /\ Becomes(Commit([Current EXCEPT !.page.uploadModalOpen = ~@], FALSE))
    /\ UNCHANGED <<pipelineVars, upload, hook>>

\* handleParquetFileUpload up to its first await
UploadStart ==
    /\ Screen(page) = "panels"
    /\ page.uploadModalOpen
    /\ \E buffer \in UploadBuffers :
        upload' = [phase      |-> "reading",
                   buffer     |-> buffer,
                   dataSource |-> page.dataSource,
                   shown      |-> DisplayedViews(page)]
    /\ Becomes(Commit([Current EXCEPT !.page.loading = TRUE,
                                      !.page.error = Null,
                                      !.page.loadingSpectrogram = TRUE], FALSE))
    /\ UNCHANGED <<pipelineVars, hook>>

\* the catch of handleParquetFileUpload
UploadFailureClearing(p) ==
    [p EXCEPT !.error = UploadFailedMessage,
              !.loading = FALSE,
              !.loadingSpectrogram = FALSE,
              !.multiChannelData = <<>>]
UploadFailure(p) ==
    [p EXCEPT !.error = UploadFailedMessage,
              !.loading = FALSE,
              !.loadingSpectrogram = FALSE]

\* the try of handleParquetFileUpload after parseEEGParquet has returned
UploadSuccess(p, parsedData, dataSource) ==
    LET patientId   == OrElse(parsedData.metadata.patientId, "unknown")
        mockEEGData == << EEGRecord(patientId,
                                    OrElse(parsedData.metadata.recordId, "EEG1000"),
                                    OrElse(parsedData.metadata.recordId, "SPEC2000")) >>
        stored      == [p EXCEPT !.multiChannelData = (patientId :> parsedData)]
    IN  [ProcessEEGData(stored, mockEEGData, dataSource)
            EXCEPT !.fileUploaded = TRUE,
                   !.uploadModalOpen = FALSE,
                   !.dataSource = "parquet"]

\* handleParquetFileUpload after file.arrayBuffer() and parseEEGParquet
UploadResolve ==
    /\ upload.phase = "reading"
    /\ ~page.crashed
    /\ LET parsed == ParseBuffer(upload.buffer)
       IN  IF parsed.threw
           THEN /\ Becomes(Commit([Current EXCEPT !.page = UploadFailure(page)], FALSE))
                /\ upload' = [upload EXCEPT !.phase = "failed"]
           ELSE /\ Becomes(Commit([Current EXCEPT !.page =
                                      UploadSuccess(page, parsed.value, upload.dataSource)],
                                  TRUE))
                /\ upload' = [upload EXCEPT !.phase = "done"]
    /\ UNCHANGED <<pipelineVars, hook>>

\* the sequence without its i-th element
RemoveAt(s, i) == SubSeq(s, 1, i - 1) \o SubSeq(s, i + 1, Len(s))

\* The loop of a loader goes on behind the id it has dealt with: the HEAD for
\* the next id is issued, or the loader ends: loadAllSpectrograms sets
\* dataSource to 'parquet' when it has loaded a file, and both loaders call
\* setLoadingSpectrogram(false).
EndLoop(s, i, loadedAny) ==
    LET l == s.loaders[i]
    IN  [s EXCEPT !.loaders = RemoveAt(@, i),
                  !.page.dataSource =
                       IF l.kind = "all" /\ loadedAny THEN "parquet" ELSE @,
                  !.page.loadingSpectrogram = FALSE]
NextId(s, i, loadedAny) ==
    LET l == s.loaders[i]
    IN  IF l.index < Len(l.ids)
        THEN [s EXCEPT !.loaders[i] = [l EXCEPT !.index = @ + 1,
                                                !.phase = "head",
                                                !.loadedAny = loadedAny],
                       !.server = IssueHead(@, l.ids[l.index + 1])]
        ELSE [s EXCEPT !.loaders = RemoveAt(@, i),
                       !.page.dataSource =
                            IF l.kind = "all" /\ loadedAny THEN "parquet" ELSE @,
                       !.page.loadingSpectrogram = FALSE]

\* the HEAD request of a loader settles: rejected (the catch logs a warning),
\* not ok (the id is skipped), or ok: loadSpectrogramById fetches the file
LoaderHeadSettles ==
    /\ ~page.crashed
    /\ \E i \in 1..Len(loaders) :
        LET l    == loaders[i]
            file == server.files[l.ids[l.index]]
        IN  /\ l.phase = "head"
            /\ IF file \in {"unreachable", "absent"}
               THEN Becomes(Commit(NextId(Current, i, l.loadedAny), FALSE))
               ELSE Becomes([Current EXCEPT !.loaders[i].phase = "file"])
    /\ UNCHANGED <<pipelineVars, upload, hook>>

\* loadSpectrogramById settles: with the recording, which is stored under the
\* spectrogram id, or with the error of parseEEGParquet, which the catch of the
\* loader logs as a warning
LoaderFileSettles ==
    /\ ~page.crashed
    /\ \E i \in 1..Len(loaders) :
        LET l      == loaders[i]
            id     == l.ids[l.index]
            parsed == ParseBuffer(IF server.files[id] = "good"
                                  THEN WellFormedBuffer(FileTable(id))
                                  ELSE MalformedBuffer)
        IN  /\ l.phase = "file"
            /\ IF parsed.threw
               THEN Becomes(Commit(NextId(Current, i, l.loadedAny), FALSE))
               ELSE Becomes(Commit(
                        NextId([Current EXCEPT !.page.multiChannelData =
                                                    (id :> parsed.value) @@ @],
                               i, TRUE),
                        TRUE))
    /\ UNCHANGED <<pipelineVars, upload, hook>>

NextPage ==
    \/ LoadDataCsv
    \/ LoadDataFallback
    \/ SelectPatient
    \/ SetActiveTab
    \/ SetUploadModalOpen
    \/ UploadStart
    \/ UploadResolve
    \/ LoaderHeadSettles
    \/ LoaderFileSettles

SpecPage == InitPage /\ [][NextPage]_vars

\* The page left alone after one patient was selected: loadData, one click on
\* a patient, clicks on the tabs, and the loaders.  Every fetch that was
\* started settles.
SelectOnce ==
    /\ page.selectedPatient = Null
    /\ SelectPatient

NextQuiesce ==
    \/ LoadDataCsv
    \/ LoadDataFallback
    \/ SelectOnce
    \/ SetActiveTab
    \/ LoaderHeadSettles
    \/ LoaderFileSettles

\* a loader awaits the response of the fetch of a file
FilePending ==
    /\ ~page.crashed
    /\ \E i \in 1..Len(loaders) : loaders[i].phase = "file"

\* every fetch that was started completes or fails: a HEAD request that can
\* settle does, and no fetch of a file stays pending for ever
FetchesSettle ==
    /\ WF_vars(LoaderHeadSettles)
    /\ \/ []<>(~FilePending)
       \/ []<><<LoaderFileSettles>>_vars

SpecQuiesce ==
    /\ InitPage
    /\ [][NextQuiesce]_vars
    /\ FetchesSettle

----------------------------------------------------------------------------
(* useEEGSpectrogramData: the hook that loads the data of a pair of ids *)

\* the ids the hook is given; Null is undefined
HookEegIds == {Null, "E1"}
HookSpectrogramIds == {Null, "S1", "S2"}

\* ParsedEEGData | null as the hook holds it: the id in its metadata
NoData == [present |-> FALSE, id |-> ""]
DataOf(id) == [present |-> TRUE, id |-> id]

\* loadEEGById and loadSpectrogramById of the hook's module: null when the
\* HEAD request is rejected or not ok (every error is caught inside), else
\* the data made for the id
LoadById(id) ==
    IF server.files[id] \in {"absent", "unreachable"} THEN NoData ELSE DataOf(id)

\* a run of loadData: the ids its closure saw and the load it waits for
Run(eegId, spectrogramId) ==
    [eegId |-> eegId, spectrogramId |-> spectrogramId,
     phase |-> IF eegId # Null THEN "eeg" ELSE "spectrogram"]

\* the effect on [eegId, spectrogramId]: without ids loadData returns; else
\* setLoading(true), setError(null) and the first load is awaited
LoadDataEffect(h) ==
    IF h.eegId = Null /\ h.spectrogramId = Null THEN h
    ELSE [h EXCEPT !.loading = TRUE,
                   !.error = Null,
                   !.inFlight = Append(@, Run(h.eegId, h.spectrogramId))]

InitHook ==
    /\ PipelineIdle
    /\ page = [InitialPage EXCEPT !.loading = FALSE]
    /\ loaders = <<>>
    /\ upload = NoUpload
    /\ \E files \in [(HookEegIds \cup HookSpectrogramIds) \ {Null} -> {"good", "absent"}] :
        server = [csv |-> "absent", files |-> files, heads |-> {}]
    /\ \E eegId \in HookEegIds, spectrogramId \in HookSpectrogramIds :
        hook = LoadDataEffect([NoHook EXCEPT !.mounted = TRUE,
                                             !.eegId = eegId,
                                             !.spectrogramId = spectrogramId])

\* the component that uses the hook renders with other ids
HookSetIds ==
    /\ hook.mounted
    /\ Len(hook.inFlight) < MaxInFlight
    /\ \E eegId \in HookEegIds, spectrogramId \in HookSpectrogramIds :
        /\ <<eegId, spectrogramId>> # <<hook.eegId, hook.spectrogramId>>
        /\ hook' = LoadDataEffect([hook EXCEPT !.eegId = eegId,
                                               !.spectrogramId = spectrogramId])
    /\ UNCHANGED <<pipelineVars, pageVars>>

\* the load a run waits for settles: its result is stored, and the run goes
\* on to the spectrogram or ends with setLoading(false)
HookLoadSettles ==
    /\ hook.mounted
    /\ \E i \in 1..Len(hook.inFlight) :
        LET run == hook.inFlight[i]
        IN  IF run.phase = "eeg"
            THEN hook' = [hook EXCEPT
                    !.eegData = LoadById(run.eegId),
                    !.loading = IF run.spectrogramId # Null THEN @ ELSE FALSE,
                    !.inFlight = IF run.spectrogramId # Null
                                 THEN [@ EXCEPT ![i].phase = "spectrogram"]
                                 ELSE RemoveAt(@, i)]
            ELSE hook' = [hook EXCEPT
                    !.spectrogramData = LoadById(run.spectrogramId),
                    !.loading = FALSE,
                    !.inFlight = RemoveAt(@, i)]
    /\ UNCHANGED <<pipelineVars, pageVars>>

NextHook == HookSetIds \/ HookLoadSettles

SpecHook == InitHook /\ [][NextHook]_vars

----------------------------------------------------------------------------
(* Properties of the builder *)

\* the positions in the schema of the columns that contribute to channel ch
Matched(ch) == {c \in 1..Len(table.fields) : Contributes(table.fields[c], ch)}

\* the frequency in the name of column c of channel ch
FrequencyOfColumn(ch, c) ==
    ParseFloat(Substring(table.fields[c], Len(ChannelPrefix(ch)))).val

Ascending(s) == \A i, j \in 1..Len(s) : i < j => s[i] <= s[j]
StrictlyAscending(s) == \A i, j \in 1..Len(s) : i < j => s[i] < s[j]

\* C1: after parseEEGParquet, every channel's frequencies are the frequencies
\* of its matched columns in ascending order, and the columns of powerValues
\* are permuted the same way: some one-to-one assignment of sorted positions
\* to matched columns gives, for every position i and frame t, frequencies[i]
\* as the frequency of the assigned column and powerValues[t][i] as its
\* coerced cell t, whatever the order of the columns in the table.  For the
\* column names LL_3.0, LL_0.5, LL_10.2 the frequencies are 0.5, 3.0, 10.2.
C1_SortedAndPermuted ==
    built =>
        /\ \A ch \in ChannelSet :
            LET cd == recording.channels[ch]
                F  == Len(cd.frequencies)
            IN  /\ Ascending(cd.frequencies)
                /\ F = Cardinality(Matched(ch))
                /\ \E p \in [1..F -> Matched(ch)] :
                    /\ \A i, j \in 1..F : i # j => p[i] # p[j]
                    /\ \A i \in 1..F :
                        /\ cd.frequencies[i] = FrequencyOfColumn(ch, p[i])
                        /\ \A t \in 1..table.numRows :
                            cd.powerValues[t][i]
                                = CoerceNumericOrZero(table.cols[p[i]][t])
        /\ table = OrderingExample =>
            /\ recording.channels["LL"].frequencies = <<50, 300, 1020>>
            /\ recording.channels["LL"].powerValues = << <<21, 11, 31>> >>

\* a table whose columns of channel LL were not in ascending order has been
\* built, with at least one frame and one cell coerced from text
C1_Witness ==
    /\ built
    /\ table.numRows >= 2
    /\ \E c, d \in Matched("LL") :
        /\ c < d
        /\ FrequencyOfColumn("LL", c) > FrequencyOfColumn("LL", d)
        /\ table.cols[c][1] = TextCell
        /\ table.cols[d][2] # table.cols[c][2]

\* C2: in every recording parseEEGParquet produces, each channel's powerValues
\* has one row per time (N rows) and every row is as long as the channel's
\* frequencies.
C2_ShapeInvariant ==
    built =>
        /\ Len(recording.times) = table.numRows
        /\ \A ch \in ChannelSet :
            LET cd == recording.channels[ch]
            IN  /\ Len(cd.powerValues) = Len(recording.times)
                /\ \A t \in 1..Len(recording.times) :
                    /\ DOMAIN cd.powerValues[t] = 1..Len(cd.frequencies)
                    /\ Len(cd.powerValues[t]) = Len(cd.frequencies)

\* a recording of two frames with two frequencies in channel LL was built
C2_Witness ==
    /\ built
    /\ Len(recording.times) = 2
    /\ Len(recording.channels["LL"].frequencies) = 2
    /\ Len(recording.channels["RL"].frequencies) = 0

\* C3 as stated: every channel's frequencies are strictly ascending, without
\* duplicates, for every set of column names.
C3_StrictlyAscending ==
    built => \A ch \in ChannelSet : StrictlyAscending(recording.channels[ch].frequencies)

\* C3 amended: every channel's frequencies are in ascending order with one
\* entry per matched column; they are strictly ascending, without duplicates,
\* exactly when no two matched columns of the channel carry the same number.
C3_AscendingOnePerColumn ==
    built =>
        \A ch \in ChannelSet :
            LET fs == recording.channels[ch].frequencies
            IN  /\ Ascending(fs)
                /\ Len(fs) = Cardinality(Matched(ch))
                /\ StrictlyAscending(fs)
                    <=> \A c, d \in Matched(ch) :
                            c # d => FrequencyOfColumn(ch, c) # FrequencyOfColumn(ch, d)

\* two names of one frequency (LL_0.5 and LL_0.50) were built into channel LL
C3_Witness ==
    /\ built
    /\ {LL_0p5, LL_0p50} \subseteq Range(table.fields)
    /\ recording.channels["LL"].frequencies = <<50, 50>>

----------------------------------------------------------------------------
(* Properties of the projector and of the average *)

\* C4: convertToSpectrogramData of a present channel does not throw; its
\* powerValues has one row per frequency and one column per time, with
\* powerValues[f][t] equal to the channel's powerValues[t][f]; its times and
\* frequencies are those of the recording and of the channel.
C4_Transpose ==
    (call.op = "convert" /\ call.channel \in ChannelSet) =>
        LET cd == recording.channels[call.channel]
            sp == call.spectrogram
        IN  /\ ~call.threw
            /\ sp.times = recording.times
            /\ sp.frequencies = cd.frequencies
            /\ Len(sp.powerValues) = Len(cd.frequencies)
            /\ \A f \in 1..Len(cd.frequencies) :
                /\ Len(sp.powerValues[f]) = Len(recording.times)
                /\ \A t \in 1..Len(recording.times) :
                    sp.powerValues[f][t] = cd.powerValues[t][f]

\* a channel of two frames and two frequencies, whose matrix is not symmetric,
\* was projected
C4_Witness ==
    /\ call.op = "convert"
    /\ call.channel = "LL"
    /\ Len(recording.times) = 2
    /\ Len(recording.channels["LL"].frequencies) = 2
    /\ recording.channels["LL"].powerValues[1][2]
        # recording.channels["LL"].powerValues[2][1]
    /\ call.spectrogram.powerValues[1][2] = recording.channels["LL"].powerValues[2][1]

\* the sum of powerValues[t][f] over the frames t of a set of indices from 0
RECURSIVE SumOverFrames(_, _, _)
SumOverFrames(pv, f, T) ==
    IF T = {} THEN 0
    ELSE LET t == CHOOSE x \in T : TRUE
         IN  pv[t + 1][f] + SumOverFrames(pv, f, T \ {t})

ValidRange(startTimeIndex, endTimeIndex) ==
    /\ 0 <= startTimeIndex
    /\ startTimeIndex <= endTimeIndex
    /\ endTimeIndex < Len(recording.times)

\* C5: for every valid range 0 <= start <= end < N, getAveragePowerSpectrum
\* returns, for every channel and frequency index f, the sum of
\* powerValues[t][f] over t = start..end divided by end - start + 1; the rows
\* [[1,2],[3,4],[5,6]] over (0, 2) give [3, 4].
C5_AveragePower ==
    (call.op = "average" /\ ValidRange(call.startTimeIndex, call.endTimeIndex)) =>
        /\ ~call.threw
        /\ \A ch \in ChannelSet :
            LET cd == recording.channels[ch]
            IN  /\ Len(call.averages[ch]) = Len(cd.frequencies)
                /\ \A f \in 1..Len(cd.frequencies) :
                    /\ call.averages[ch][f].den
                        = call.endTimeIndex - call.startTimeIndex + 1
                    /\ call.averages[ch][f].num
                        = SumOverFrames(cd.powerValues, f,
                                        call.startTimeIndex..call.endTimeIndex)
        /\ (table = AverageExample /\ call.startTimeIndex = 0 /\ call.endTimeIndex = 2) =>
            /\ recording.channels["LL"].powerValues = << <<1, 2>>, <<3, 4>>, <<5, 6>> >>
            /\ call.averages["LL"] = << [num |-> 9, den |-> 3], [num |-> 12, den |-> 3] >>

\* the average of the rows [[1,2],[3,4],[5,6]] over (0, 2) was computed
C5_Witness ==
    /\ call.op = "average"
    /\ table = AverageExample
    /\ call.startTimeIndex = 0
    /\ call.endTimeIndex = 2
    /\ ~call.threw

\* C6: getAveragePowerSpectrum throws "Time indices out of bounds" exactly
\* when start < 0, or end >= N, or start > end; it throws before it reads a
\* power value, it never reads a row outside 0..N-1, and the recording stays
\* what parseEEGParquet built.
C6_RangeRejection ==
    call.op = "average" =>
        LET N == Len(recording.times)
        IN  /\ call.threw <=>
                \/ call.startTimeIndex < 0
                \/ call.endTimeIndex >= N
                \/ call.startTimeIndex > call.endTimeIndex
            /\ call.threw =>
                /\ call.error = "Time indices out of bounds"
                /\ call.reads = {}
                /\ call.averages = NoAverages
            /\ call.reads \subseteq 0..(N - 1)
            /\ recording = ParseEEGParquetResult(table)

\* the call with startTimeIndex = 2 and endTimeIndex = 1 was rejected
C6_Witness ==
    /\ call.op = "average"
    /\ call.startTimeIndex = 2
    /\ call.endTimeIndex = 1
    /\ Len(recording.channels["LL"].frequencies) > 0
    /\ call.threw

----------------------------------------------------------------------------
(* Properties of the projector's failure and of the view *)

\* what a view of the recording shows when it draws the given channel
ShownFor(channel) ==
    DrawSpectrogram(BlankCanvas, TRUE, recording,
                    [InitialView(<<>>) EXCEPT !.selectedChannel = channel]).status

CombinedOfSeveral ==
    /\ built
    /\ canvas.mode = "combined"
    /\ Len(view.offsets) >= 2
    /\ Len(recording.times) >= 1

\* last combined time of segment k and first combined time of segment k + 1
LastOfSegment(k)  == canvas.times[k * Len(recording.times)]
FirstOfSegment(k) == canvas.times[(k - 1) * Len(recording.times) + 1]

\* C8 as stated: for every recording and every list of at least two offsets,
\* the first combined time of segment k+1 is strictly greater than the last
\* combined time of segment k.
C8_StrictlyIncreasingAcrossSegments ==
    CombinedOfSeveral =>
        \A k \in 1..(Len(view.offsets) - 1) : FirstOfSegment(k + 1) > LastOfSegment(k)

\* C8 amended: the first combined time of segment k+1 is the last combined
\* time of segment k plus the recording's first timestamp plus 1 (the
\* cumulative offset advances by lastLocalTime + 1); so the combined axis is
\* strictly increasing across every segment boundary exactly when the first
\* timestamp is greater than -1, as it is for timestamps that are not negative.
C8_BoundaryStep ==
    CombinedOfSeveral =>
        /\ Len(canvas.times) = Len(view.offsets) * Len(recording.times)
        /\ \A k \in 1..(Len(view.offsets) - 1) :
            /\ FirstOfSegment(k + 1) = LastOfSegment(k) + recording.times[1] + 1
            /\ FirstOfSegment(k + 1) > LastOfSegment(k) <=> recording.times[1] > 0 - 1

\* two segments of a recording of two frames that starts at a time >= 0
C8_Witness ==
    /\ CombinedOfSeveral
    /\ canvas.status = "ok"
    /\ Len(recording.times) = 2
    /\ recording.times[1] >= 0
    /\ FirstOfSegment(2) > LastOfSegment(1)

FlatRange ==
    /\ built
    /\ canvas.mode # ""
    /\ Cardinality(ValuesOf(canvas.powerValues)) = 1
    /\ canvas.timeSlice # <<>>

\* C10 as stated: when minPower = maxPower, every rendered cell receives the
\* first control-point colour of the selected map and the render does not
\* enter the error path.
C10_FlatRangeFirstColor ==
    FlatRange =>
        /\ canvas.status = "ok"
        /\ Len(canvas.cells) = Len(canvas.powerValues)
        /\ \A i \in 1..Len(canvas.cells) :
            /\ Len(canvas.cells[i]) = Len(canvas.timeSlice)
            /\ \A j \in 1..Len(canvas.cells[i]) :
                canvas.cells[i][j] = ColorMaps(view.colorMap)[1]

----------------------------------------------------------------------------
(* Properties of empty channels *)

\* channel ch has no matched column in the table
NoMatchedColumn(ch) == Matched(ch) = {}

\* C11 as stated: for a recording of N >= 0 frames and a channel without
\* matched columns, parseEEGParquet yields frequencies = [] and
\* powerValues = [] for that channel.
C11_EmptyChannelEmptyArrays ==
    built =>
        \A ch \in ChannelSet :
            NoMatchedColumn(ch) =>
                /\ recording.channels[ch].frequencies = <<>>
                /\ recording.channels[ch].powerValues = <<>>

\* C11 amended: parseEEGParquet succeeds, and for a channel without matched
\* columns frequencies is [] and powerValues holds no power value: it has one
\* row per frame and every row is []; so powerValues is [] exactly for a
\* recording without frames.
C11_EmptyChannelEmptyRows ==
    built =>
        /\ recording = ParseEEGParquetResult(table)
        /\ \A ch \in ChannelSet :
            NoMatchedColumn(ch) =>
                LET cd == recording.channels[ch]
                IN  /\ cd.frequencies = <<>>
                    /\ Len(cd.powerValues) = table.numRows
                    /\ \A t \in 1..table.numRows : cd.powerValues[t] = <<>>
                    /\ ValuesOf(cd.powerValues) = {}
                    /\ cd.powerValues = <<>> <=> table.numRows = 0

\* a recording of two frames was built whose channel RP has no column, while
\* channel LL has one and the table holds a column of no channel
C11_Witness ==
    /\ built
    /\ table.numRows = 2
    /\ NoMatchedColumn("RP")
    /\ ~NoMatchedColumn("LL")
    /\ Len(table.fields) = 2
    /\ recording.channels["RP"].frequencies = <<>>
    /\ recording.channels["RP"].powerValues = << <<>>, <<>> >>

\* the view has drawn a channel of the recording that has no frequencies
EmptyChannelDrawn ==
    /\ built
    /\ view.mounted
    /\ recording.channels[view.selectedChannel].frequencies = <<>>

\* C12 as stated: rendering a channel without frequencies, in individual and
\* in combined view mode, does not enter the error path, fills no cell, and
\* shows a "no data" indicator.
C12_EmptyChannelNoDataIndicator ==
    EmptyChannelDrawn =>
        /\ canvas.status # "error"
        /\ canvas.cells = <<>>
        /\ canvas.status = "nodata"

----------------------------------------------------------------------------
(* Properties of a failed upload *)

\* C13 as stated: when decoding an uploaded buffer fails, the views of other
\* recordings that were loaded and displayed when the file was chosen are
\* still displayed, with the same record and recording.
C13_DecodeFailureIsolation ==
    upload.phase = "failed" =>
        \A v \in upload.shown : v.hasData => v \in DisplayedViews(page)

\* the data state of the page that a failed upload must leave alone
DataState(p) == <<p.multiChannelData, p.eegData, p.groupedByPatient>>

\* C14: both steps of an upload whose buffer does not decode (the handler up
\* to its await, and its catch) leave multiChannelData, eegData and
\* groupedByPatient as they were.
C14_NoPartialMutation ==
    [][(/\ upload' # upload
        /\ upload'.phase \in {"reading", "failed"}
        /\ ~upload'.buffer.wellFormed)
            => DataState(page') = DataState(page)]_vars

\* an upload has failed on a page that holds records of two patients and a
\* loaded recording
C14_Witness ==
    /\ upload.phase = "failed"
    /\ page.error = UploadFailedMessage
    /\ DOMAIN page.multiChannelData # {}
    /\ Len(page.eegData) = 2
    /\ DOMAIN page.groupedByPatient = {"P1", "P2"}

----------------------------------------------------------------------------
(* Properties of the hook *)

\* C15 as stated: under every order of completions, once no fetch is in
\* flight the spectrogram data the hook holds is the data of the spectrogram
\* id requested last, never the data of a superseded request.
C15_StaleFetchDiscarded ==
    (/\ hook.mounted
     /\ hook.inFlight = <<>>
     /\ hook.spectrogramId # Null
     /\ hook.spectrogramData.present)
        => hook.spectrogramData.id = hook.spectrogramId

----------------------------------------------------------------------------
(* Properties of drawSpectrogram in the two view components *)

\* a view with data: its last drawSpectrogram call has passed the early
\* returns and has drawn
HasDrawn == built /\ view.mounted

\* C16: an exception raised by the drawing inside drawSpectrogram is caught
\* and shown as the error message on the canvas, with no cell left; the call
\* itself completes, with status "ok" exactly when nothing was thrown; and
\* after every call that started drawing isLoading is false again.
C16_RenderErrorContained ==
    HasDrawn =>
        /\ canvas.status \in {"ok", "error"}
        /\ canvas.status = "error" <=> canvas.threw
        /\ canvas.threw => canvas.cells = <<>>
        /\ ~view.isLoading

\* the view without modes has drawn a channel whose powers are all equal:
\* getColor threw, and the error message is on the canvas
C16_Witness ==
    /\ HasDrawn
    /\ view.kind = "simple"
    /\ canvas.threw
    /\ canvas.status = "error"
    /\ Len(recording.channels[view.selectedChannel].frequencies) > 0
    /\ view.zoomLevel # 10

\* C17 as stated: after every change of the selected channel, colour map,
\* time range, zoom level or offset selection a new render has run, so the
\* raster was drawn with the current values of all of them.
C17_ReactiveRedraw ==
    HasDrawn => canvas.drawnWith = RenderOptions(view)

\* C18: every render clears the surface before it draws, also when it ends in
\* the error message: what is on the surface is what the same render draws on
\* a blank surface, so it depends on the recording and on the options of the
\* render only.
C18_FullRedraw ==
    HasDrawn =>
        /\ canvas.under = "blank"
        /\ canvas = DrawSpectrogram(BlankCanvas, TRUE, recording, canvas.drawnWith)

\* a render without error on a surface that held the error message: the
\* first render of the view drew channel LL, whose powers are all equal, and
\* the channel and the colour map were changed since
C18_Witness ==
    /\ HasDrawn
    /\ Cardinality(ValuesOf(recording.channels["LL"].powerValues)) = 1
    /\ view.selectedChannel = "RL"
    /\ view.colorMap = "jet"
    /\ canvas.status = "ok"
    /\ canvas.drawnWith.selectedChannel = "RL"

\* C19 as stated: a combined view requested with an empty offsets list ends
\* in an error; it is not drawn as something else.
C19_EmptyOffsetsFails ==
    (HasDrawn /\ view.kind = "modes" /\ view.viewMode = "combined"
        /\ view.offsets = <<>>)
        => canvas.status = "error"

----------------------------------------------------------------------------
(* Properties of the background loaders of EEGPatientData *)

\* the spectrogram ids whose file cannot be loaded: missing, unreachable, or
\* not decodable
FailingIds == {id \in RequestableIds : server.files[id] # "good"}

\* every id up to the one a running loader waits for has been requested, and
\* once loadData has processed the CSV and no loader runs any more, every
\* spectrogram id of the CSV has been requested
AllIdsTried ==
    /\ \A i \in 1..Len(loaders) :
        \A k \in 1..loaders[i].index : loaders[i].ids[k] \in server.heads
    /\ (server.csv = "good" /\ upload.phase # "mounting" /\ loaders = <<>>)
        => \A k \in 1..Len(CsvRecords) : CsvRecords[k].spectrogram_id \in server.heads

\* no recording is stored under a failing id, and every view on the screen for
\* a record with a failing id is given no data
FailingIdsShownWithoutData ==
    /\ FailingIds \cap DOMAIN page.multiChannelData = {}
    /\ \A v \in DisplayedViews(page) :
        v.record.spectrogram_id \in FailingIds => ~v.hasData

\* a step of a background loader
LoaderStep == LoaderHeadSettles \/ LoaderFileSettles

\* C20: while the spectrogram files are loaded in the background, a missing
\* file, a network error or a parse error for one id never sets the error of
\* the page (no step of a loader changes it or unmounts the page), never keeps
\* the loader from requesting the ids that follow, and the records with such
\* an id are shown without spectrogram data.
C20_FetchFailuresDegrade ==
    /\ [](AllIdsTried /\ FailingIdsShownWithoutData)
    /\ [][LoaderStep => (page'.error = page.error /\ page'.crashed = page.crashed
                            /\ page'.loading = page.loading)]_vars

\* the first id of the CSV cannot be loaded, the loaders have gone on to the
\* second and have ended; the Spectrograms tab of the first patient shows its
\* record without data, next to the panels and not in place of them
C20_Witness ==
    /\ "S1" \in FailingIds
    /\ "S2" \in DOMAIN page.multiChannelData
    /\ loaders = <<>>
    /\ page.error = Null
    /\ Screen(page) = "panels"
    /\ \E v \in DisplayedViews(page) :
        v.record.spectrogram_id = "S1" /\ ~v.hasData

----------------------------------------------------------------------------
(* Properties of the combined power matrix *)

\* the combined drawing of the view's channel has been computed
CombinedComputed ==
    /\ built
    /\ view.mounted
    /\ canvas.mode = "combined"

\* the projected power of the drawn channel at frequency f and local time
\* index i (indices from 1)
Projected(f, i) == recording.channels[view.selectedChannel].powerValues[i][f]

\* the combined power (held in tenths) of the segment at sorted position k
CombinedPower(f, k, i) == canvas.powerValues[f][(k - 1) * Len(recording.times) + i]

\* C21 as stated: every segment's power columns are appended unmodified: the
\* combined power at frequency f and index k*N + i is the channel's projected
\* power at f and i, for every sorted position k.
C21_SegmentsUnmodified ==
    CombinedComputed =>
        \A f \in 1..Len(canvas.powerValues), k \in 1..Len(view.offsets),
           i \in 1..Len(recording.times) :
            CombinedPower(f, k, i) = 10 * Projected(f, i)

\* C21 amended: the combined matrix has one row per frequency of the channel
\* and k*N columns, and the combined power at frequency f and index k*N + i is
\* the channel's projected power at f and i times 1 + offset/10, for the
\* offset at sorted position k; a segment is appended unmodified exactly when
\* its offset is 0 or the power is 0.
C21_SegmentsScaledByOffset ==
    CombinedComputed =>
        LET sorted == SortOffsets(view.offsets)
            N      == Len(recording.times)
        IN  /\ Len(canvas.powerValues)
                = Len(recording.channels[view.selectedChannel].frequencies)
            /\ \A f \in 1..Len(canvas.powerValues) :
                /\ Len(canvas.powerValues[f]) = Len(sorted) * N
                /\ \A k \in 1..Len(sorted), i \in 1..N :
                    /\ CombinedPower(f, k, i) = Projected(f, i) * (10 + sorted[k])
                    /\ CombinedPower(f, k, i) = 10 * Projected(f, i)
                        <=> (sorted[k] = 0 \/ Projected(f, i) = 0)

\* two segments with the offsets 0 and 5, given as [5, 0], of a channel with
\* two frames: the first is appended as it is, the second times 1.5
C21_Witness ==
    /\ CombinedComputed
    /\ view.offsets = <<5, 0>>
    /\ Len(recording.times) = 2
    /\ Len(canvas.powerValues) >= 1
    /\ Projected(1, 2) # 0
    /\ CombinedPower(1, 1, 2) = 10 * Projected(1, 2)
    /\ CombinedPower(1, 2, 2) = 15 * Projected(1, 2)

----------------------------------------------------------------------------
(* Properties of the colour scale and of the time window *)

\* the power columns inside the time window of the last drawing
VisiblePowers ==
    [f \in 1..Len(canvas.powerValues) |->
        Slice(canvas.powerValues[f], canvas.startTimeIndex, canvas.endTimeIndex)]

\* a drawing without error whose window holds different power values
WindowWithRange ==
    /\ built
    /\ view.mounted
    /\ canvas.status = "ok"
    /\ Cardinality(ValuesOf(VisiblePowers)) >= 2

\* C22 as stated: the colours of the cells are those of a scale whose minPower
\* and maxPower are the minimum and the maximum of the power values inside the
\* time window only, so that no value outside the window has influence on the
\* colour of a cell that is drawn.
C22_ColorScaleLocalToWindow ==
    WindowWithRange =>
        canvas.cells = DrawCells(VisiblePowers,
                                 MinOf(ValuesOf(VisiblePowers)),
                                 MaxOf(ValuesOf(VisiblePowers)),
                                 canvas.drawnWith.colorMap).cells

\* the indices from a up to but excluding b
IndicesFrom(a, b) == [i \in 1..(b - a) |-> a + i - 1]

\* C23 as stated: for n time samples and a time range 0 <= lo <= hi <= 100
\* the drawing takes exactly the indices from floor(n*lo/100) up to but
\* excluding ceil(n*hi/100); both bounds lie within 0..n, and the window is
\* not empty whenever n > 0 and lo < hi.
C23_TimeWindow ==
    call.op = "window" =>
        LET lo == call.timeRange[1]
            hi == call.timeRange[2]
        IN  /\ call.startTimeIndex = ExactFloor(call.n, lo)
            /\ call.endTimeIndex = ExactCeil(call.n, hi)
            /\ call.timeSlice = IndicesFrom(ExactFloor(call.n, lo), ExactCeil(call.n, hi))
            /\ call.startTimeIndex \in 0..call.n
            /\ call.endTimeIndex \in 0..call.n
            /\ (call.n > 0 /\ lo < hi) => call.timeSlice # <<>>

----------------------------------------------------------------------------
(* Properties of the time axis and of the column scan of the builder *)

\* the duration the time axis is to span when the metadata declare none
DefaultDuration == 10

\* a recording of at least two frames built from a table without a column
\* named "time" (the tables of the model declare no duration)
BuiltWithoutTimeColumn ==
    /\ built
    /\ TimeName \notin Range(table.fields)
    /\ table.numRows >= 2

\* C24 as stated: when the table has no column named "time", the times of the
\* built recording are evenly spaced from 0 to the declared duration (10 when
\* none is declared) over the rows of the table, and not a constant axis.
C24_SynthesizedTimeAxis ==
    BuiltWithoutTimeColumn =>
        /\ Len(recording.times) = table.numRows
        /\ \A i \in 1..table.numRows :
            recording.times[i] * (table.numRows - 1) = (i - 1) * DefaultDuration
        /\ recording.times[1] # recording.times[table.numRows]

\* the name is the channel identifier, "_" and a suffix of which parseFloat
\* makes a number (parseFloat reads the longest numeric prefix: "3x" is 3)
NamedFor(name, ch) ==
    LET prefix == ChannelPrefix(ch)
    IN  /\ Len(name) >= Len(prefix)
        /\ \A i \in 1..Len(prefix) : name[i] = prefix[i]
        /\ ~ParseFloat(SubSeq(name, Len(prefix) + 1, Len(name))).nan

\* the positions in the schema of the columns named for the channel
ColumnsNamedFor(ch) == {c \in 1..Len(table.fields) : NamedFor(table.fields[c], ch)}

\* C25: the recording is built from every table, whatever its column names,
\* and a column contributes to channel c exactly when its name is c, "_" and a
\* suffix that parses as a number: every channel has one frequency and one
\* power column per column named for it, with the frequencies parsed from
\* those names.  The "time" column, columns with an unknown prefix and columns
\* with a suffix that does not parse contribute to no channel, and no column
\* contributes to two channels.
C25_ColumnClassification ==
    built =>
        /\ \A ch \in ChannelSet :
            LET cd == recording.channels[ch]
            IN  /\ Len(cd.frequencies) = Cardinality(ColumnsNamedFor(ch))
                /\ Range(cd.frequencies)
                    = {ParseFloat(SubSeq(table.fields[c], Len(ChannelPrefix(ch)) + 1,
                                         Len(table.fields[c]))).val :
                            c \in ColumnsNamedFor(ch)}
                /\ \A t \in 1..Len(cd.powerValues) :
                    Len(cd.powerValues[t]) = Cardinality(ColumnsNamedFor(ch))
        /\ \A c \in 1..Len(table.fields) :
            /\ Cardinality({ch \in ChannelSet : c \in ColumnsNamedFor(ch)}) <= 1
            /\ table.fields[c] \in {TimeName, XX_1, LL_ab} =>
                \A ch \in ChannelSet : c \notin ColumnsNamedFor(ch)
        /\ Len(recording.times) = table.numRows

\* a table with a column whose suffix does not parse next to a column of the
\* same channel whose suffix does has been built: only the second contributes
C25_Witness ==
    /\ built
    /\ table.numRows >= 1
    /\ \E c, d \in 1..Len(table.fields) :
        /\ table.fields[c] = LL_ab
        /\ table.fields[d] = LL_3x
    /\ recording.channels["LL"].frequencies = <<300>>
    /\ Len(recording.channels["LL"].powerValues[1]) = 1

----------------------------------------------------------------------------
(* Properties of the zoom *)

\* what a drawing takes from the recording: the window and the colours of its
\* cells
Sampled(c) ==
    [mode |-> c.mode, status |-> c.status,
     startTimeIndex |-> c.startTimeIndex, endTimeIndex |-> c.endTimeIndex,
     timeSlice |-> c.timeSlice, powerValues |-> c.powerValues, cells |-> c.cells,
     dividers |-> c.dividers]

\* C26: zoomLevel starts at 1 and after any sequence of zoom-in and zoom-out
\* clicks lies between 0.5 and 3, so it is greater than 0; the cells are
\* filled with their size times zoomLevel, and the window and the cells of a
\* drawing are those of the same drawing at zoom 1.
C26_ZoomBounds ==
    /\ view.mounted =>
        /\ view.zoomLevel >= 5
        /\ view.zoomLevel <= 30
        /\ view.zoomLevel > 0
        /\ ~built => view.zoomLevel = 10
    /\ HasDrawn =>
        /\ canvas.cellScale = view.zoomLevel
        /\ Sampled(canvas)
            = Sampled(DrawSpectrogram(BlankCanvas, TRUE, recording,
                                      [canvas.drawnWith EXCEPT !.zoomLevel = 10]))

\* ten clicks on zoom-in: the level is at its cap, and the cells of the
\* drawing are filled three times their size
C26_Witness ==
    /\ HasDrawn
    /\ view.zoomLevel = 30
    /\ canvas.cellScale = 30
    /\ canvas.status = "ok"
    /\ Len(canvas.cells) > 0

----------------------------------------------------------------------------
(* Properties of the loadingSpectrogram flag and of the end of loading *)

\* a run of loadAllSpectrograms or of loadMissingSpectrograms has not ended
LoadInFlight == loaders # <<>>

\* C27 as stated: loadingSpectrogram is true in every state in which a
\* spectrogram load is still in flight, under every interleaving of the
\* loaders.
C27_LoadingFlagWhileInFlight ==
    LoadInFlight => page.loadingSpectrogram

\* no loader is in flight and the flag is down
Quiescent ==
    /\ loaders = <<>>
    /\ ~page.loadingSpectrogram

----------------------------------------------------------------------------
(* Properties of the selected offset *)

\* C29 as stated: selectedOffset is null or one of the offsets the view is
\* currently given, after any clicks on offsets and any changes of the
\* offsets prop.
C29_SelectedOffsetAmongOffsets ==
    \/ view.selectedOffset = <<>>
    \/ \E i \in 1..Len(view.offsets) : view.selectedOffset = <<view.offsets[i]>>

----------------------------------------------------------------------------
(* Properties of the key of an uploaded recording *)

\* the records the page shows after the upload
UploadedRecords ==
    UNION {Range(page.groupedByPatient[pid]) : pid \in DOMAIN page.groupedByPatient}

\* C30 as stated: after a successful upload the recording is stored under the
\* key the view looks it up with, the spectrogram_id of the uploaded record,
\* whether or not the file carries patient_id and record_id metadata.
C30_UploadKeyIsLookupKey ==
    upload.phase = "done" =>
        \A record \in UploadedRecords :
            /\ record.spectrogram_id \in DOMAIN page.multiChannelData
            /\ page.multiChannelData[record.spectrogram_id]
                   = ParseBuffer(upload.buffer).value

====
